---- MODULE Spec2Model ----
(***************************************************************************)
(* The synthetic trace generator of the dashboard                         *)
(* (src/src/components/ui/MetricCard.tsx, generateSampleTraceData and the *)
(* functions it calls), as a state machine: one step per iteration of the *)
(* session loop, one per iteration of the task loop, one for the return.  *)
(*                                                                         *)
(* Math.random() is a stream of draws x / RandMod, x \in 0..RandMod-1,     *)
(* produced from the hidden generator state rng; the initial state of the *)
(* generator is arbitrary.  Every call of Math.random() in the source,    *)
(* in the source's evaluation order (short-circuits included), consumes   *)
(* one draw.  uuidv4() hands out fresh identifiers.  Numbers are exact    *)
(* rationals: a task duration is k / (2 * numTasks) milliseconds.         *)
(*                                                                         *)
(* randomInt is also taken alone, at its two call sites with bounds that   *)
(* are not integers, on values of Math.random() of the finer grid          *)
(* x / FineMod (SpecRandomInt).                                            *)
(***************************************************************************)
EXTENDS Integers, Sequences, FiniteSets, TLC

(* ------------------------------ bounds -------------------------------- *)
MaxSessions == 2      \* numSessions ranges over -NegSessions..MaxSessions
NegSessions == 1
MaxSeed == 59         \* initial generator states 0..MaxSeed
MaxTick == 1          \* Date.now() advances by 0..MaxTick ms between sessions
RandMod == 1000       \* Math.random() returns x / RandMod
BaseClock == 700000000 \* Date.now() when generation starts
FineMod == 8000       \* randomInt alone: Math.random() returns x / FineMod
DurationSpan == 7     \* randomInt alone: session durations 30000..30000+DurationSpan

null == 0             \* parentSpanId of a root span; identifiers are >= 1

(* --------------------------- static catalogs --------------------------- *)
agentTypes ==
  << [type |-> "research-agent", avgTaskDuration |-> 5000,
      toolUsage |-> <<"web-search", "document-analyzer", "knowledge-base">>],
     [type |-> "code-agent", avgTaskDuration |-> 8000,
      toolUsage |-> <<"code-editor", "compiler", "debugger", "git">>],
     [type |-> "planning-agent", avgTaskDuration |-> 4000,
      toolUsage |-> <<"task-planner", "priority-analyzer", "resource-allocator">>],
     [type |-> "communication-agent", avgTaskDuration |-> 3000,
      toolUsage |-> <<"email-client", "slack-api", "notification-service">>],
     [type |-> "data-agent", avgTaskDuration |-> 6000,
      toolUsage |-> <<"database", "data-processor", "visualization-tool">>],
     [type |-> "monitoring-agent", avgTaskDuration |-> 2000,
      toolUsage |-> <<"metrics-collector", "alert-manager", "log-analyzer">>] >>

llmModels ==
  << [name |-> "gpt-4", avgInputTokens |-> 1200, avgOutputTokens |-> 400],
     [name |-> "gpt-3.5-turbo", avgInputTokens |-> 800, avgOutputTokens |-> 300],
     [name |-> "claude-3", avgInputTokens |-> 1500, avgOutputTokens |-> 500],
     [name |-> "gemini-pro", avgInputTokens |-> 1000, avgOutputTokens |-> 350] >>

sessionTypes == <<"interactive", "batch", "automated", "collaborative">>
taskTypes == <<"analysis", "generation", "processing", "communication", "planning">>
llmRequestTypes == <<"completion", "chat", "embedding">>
toolOperations == <<"read", "write", "process", "query">>

errorTypes ==
  [llm |-> <<"rate_limit", "context_length", "safety_filter", "timeout">>,
   tool |-> <<"api_error", "timeout", "invalid_input", "rate_limit">>,
   task |-> <<"timeout", "resource_limit", "validation_error", "dependency_failure">>,
   workflow |-> <<"workflow_error", "dependency_failure", "timeout", "resource_exhaustion">>]

errorMessages ==
  [rate_limit |-> "API rate limit exceeded, retry after 60 seconds",
   context_length |-> "Input text exceeds maximum context length of 4096 tokens",
   safety_filter |-> "Content filtered due to safety policy violation",
   timeout |-> "Operation timed out after 30 seconds",
   api_error |-> "External API returned 500 Internal Server Error",
   invalid_input |-> "Input validation failed: missing required parameters",
   resource_limit |-> "Insufficient resources to complete operation",
   validation_error |-> "Data validation failed: invalid format",
   dependency_failure |-> "Dependent service is unavailable",
   workflow_error |-> "Workflow execution failed at step 3",
   resource_exhaustion |-> "System resources exhausted, operation cancelled"]

\* mutant: the fallback message for every error type
ErrorMessage_fallback(errorType) == "Unknown error occurred"

\* errorMessages[errorType] || "Unknown error occurred"
ErrorMessage(errorType) ==
  IF errorType \in DOMAIN errorMessages
    THEN errorMessages[errorType]
    ELSE "Unknown error occurred"

taskDescriptions ==
  ("research-agent" :>
     <<"Analyze market trends for Q4 planning",
       "Research competitor pricing strategies",
       "Gather customer feedback data",
       "Investigate new technology adoption">>) @@
  ("code-agent" :>
     <<"Implement user authentication system",
       "Optimize database query performance",
       "Fix memory leak in data processing",
       "Add unit tests for API endpoints">>) @@
  ("planning-agent" :>
     <<"Create project milestone schedule",
       "Allocate resources for sprint planning",
       "Prioritize feature backlog items",
       "Develop risk mitigation strategies">>) @@
  ("communication-agent" :>
     <<"Send project status update emails",
       "Schedule stakeholder meetings",
       "Post team announcements",
       "Coordinate with external partners">>) @@
  ("data-agent" :>
     <<"Process customer analytics data",
       "Generate monthly performance reports",
       "Clean and validate dataset",
       "Create data visualization dashboards">>) @@
  ("monitoring-agent" :>
     <<"Check system health metrics",
       "Monitor application performance",
       "Analyze error rate trends",
       "Generate alerts for anomalies">>)

(* ------------------------------ utilities ------------------------------ *)
\* the generator behind Math.random(): one call moves the state from g to
\* Advance(g) and returns Advance(g) / RandMod
Advance(g) == (421 * g + 337) % RandMod

\* floor(x * a / b) for naturals, without forming x * a
MulDivFloor(x, a, b) == x * (a \div b) + (x * (a % b)) \div b

\* randomInt(min, max) for integer bounds, on the draw x / RandMod:
\* Math.floor(Math.random() * (max - min + 1)) + min
randomInt(x, min, max) == MulDivFloor(x, max - min + 1, RandMod) + min

\* a number of the source that need not be an integer: num / den
Num(n, d) == [num |-> n, den |-> d]

\* q * a / b
Times(q, a, b) == Num(q.num * a, q.den * b)

\* randomInt(min, max) for bounds min and max of the same denominator, on
\* the draw x / mod: the floor is an integer, the result keeps the
\* fractional part of min
randomIntOn(x, mod, min, max) ==
  LET fl == MulDivFloor(x, max.num - min.num + min.den, mod * min.den)
  IN  Num(fl * min.den + min.num, min.den)

\* the same on the draw x / RandMod
randomIntQ(x, min, max) == randomIntOn(x, RandMod, min, max)

\* Math.floor of a non-negative number
Floor(q) == q.num \div q.den

\* randomChoice(array) on the draw x / RandMod
randomChoice(x, array) == array[((x * Len(array)) \div RandMod) + 1]

\* Math.random() > p / 100 and Math.random() < p / 100 on the draw x / RandMod
DrawAbove(x, p) == 100 * x > p * RandMod
DrawBelow(x, p) == 100 * x < p * RandMod

(* --------------------------- session synthesis ------------------------- *)
\* mutant: the medium tier takes the task range of the complex tier
getSessionParams_mixed(complexity, g) ==
  LET x1 == Advance(g)
      x2 == Advance(x1)
  IN  IF DrawAbove(complexity, 70)
        THEN [sessionDuration |-> randomInt(x1, 600000, 1800000),
              numTasks |-> randomInt(x2, 15, 40),
              successRate |-> 75, g |-> x2]
        ELSE IF DrawAbove(complexity, 30)
          THEN [sessionDuration |-> randomInt(x1, 120000, 600000),
                numTasks |-> randomInt(x2, 15, 40),
                successRate |-> 85, g |-> x2]
          ELSE [sessionDuration |-> randomInt(x1, 30000, 120000),
                numTasks |-> randomInt(x2, 2, 8),
                successRate |-> 95, g |-> x2]

\* mutant: the complex tier starts at a score of 0.5
getSessionParams_half(complexity, g) ==
  LET x1 == Advance(g)
      x2 == Advance(x1)
  IN  IF DrawAbove(complexity, 50)
        THEN [sessionDuration |-> randomInt(x1, 600000, 1800000),
              numTasks |-> randomInt(x2, 15, 40),
              successRate |-> 75, g |-> x2]
        ELSE IF DrawAbove(complexity, 30)
          THEN [sessionDuration |-> randomInt(x1, 120000, 600000),
                numTasks |-> randomInt(x2, 8, 20),
                successRate |-> 85, g |-> x2]
          ELSE [sessionDuration |-> randomInt(x1, 30000, 120000),
                numTasks |-> randomInt(x2, 2, 8),
                successRate |-> 95, g |-> x2]

\* complexity is the draw x / RandMod; g is the generator state after it
getSessionParams(complexity, g) ==
  LET x1 == Advance(g)
      x2 == Advance(x1)
  IN  IF DrawAbove(complexity, 70)
        THEN [sessionDuration |-> randomInt(x1, 600000, 1800000),
              numTasks |-> randomInt(x2, 15, 40),
              successRate |-> 75, g |-> x2]
        ELSE IF DrawAbove(complexity, 30)
          THEN [sessionDuration |-> randomInt(x1, 120000, 600000),
                numTasks |-> randomInt(x2, 8, 20),
                successRate |-> 85, g |-> x2]
          ELSE [sessionDuration |-> randomInt(x1, 30000, 120000),
                numTasks |-> randomInt(x2, 2, 8),
                successRate |-> 95, g |-> x2]

\* mutant: the session's end is counted from Date.now()
generateSession_endFromNow(g, id, now) ==
  LET sessionComplexity == Advance(g)
      params == getSessionParams(sessionComplexity, sessionComplexity)
      x4 == Advance(params.g)
      x5 == Advance(x4)
      x6 == Advance(x5)
      x7 == Advance(x6)
      x8 == Advance(x7)
      x9 == Advance(x8)
      startTime == now - randomInt(x4, 0, 7 * 24 * 60 * 60 * 1000)
      endTime == now + params.sessionDuration
      sessionSuccess == DrawBelow(x5, params.successRate)
  IN  [session |->
         [sessionId |-> id,
          userId |-> <<"user", randomInt(x6, 1, 50)>>,
          sessionType |-> randomChoice(x7, sessionTypes),
          startTime |-> startTime,
          endTime |-> endTime,
          duration |-> params.sessionDuration,
          numTasks |-> params.numTasks,
          numAgents |-> randomInt(x8, 2, 6),
          success |-> sessionSuccess,
          totalTokens |-> randomInt(x9, 5000, 50000),
          traceId |-> id],
       sessionComplexity |-> sessionComplexity,
       successRate |-> params.successRate,
       g |-> x9]

\* g: generator state before the call, id: the identifier uuidv4() returns,
\* now: the value of Date.now()
generateSession(g, id, now) ==
  LET sessionComplexity == Advance(g)
      params == getSessionParams(sessionComplexity, sessionComplexity)
      x4 == Advance(params.g)
      x5 == Advance(x4)
      x6 == Advance(x5)
      x7 == Advance(x6)
      x8 == Advance(x7)
      x9 == Advance(x8)
      startTime == now - randomInt(x4, 0, 7 * 24 * 60 * 60 * 1000)
      endTime == startTime + params.sessionDuration
      sessionSuccess == DrawBelow(x5, params.successRate)
  IN  [session |->
         [sessionId |-> id,
          userId |-> <<"user", randomInt(x6, 1, 50)>>,
          sessionType |-> randomChoice(x7, sessionTypes),
          startTime |-> startTime,
          endTime |-> endTime,
          duration |-> params.sessionDuration,
          numTasks |-> params.numTasks,
          numAgents |-> randomInt(x8, 2, 6),
          success |-> sessionSuccess,
          totalTokens |-> randomInt(x9, 5000, 50000),
          traceId |-> id],
       sessionComplexity |-> sessionComplexity,
       successRate |-> params.successRate,
       g |-> x9]

\* the attributes of the root span of a session
sessionAttributes(session) ==
  ("ai.session.id" :> session.sessionId) @@
  ("ai.session.type" :> session.sessionType) @@
  ("user.id" :> session.userId) @@
  ("session.num_tasks" :> session.numTasks) @@
  ("session.num_agents" :> session.numAgents) @@
  ("session.total_tokens" :> session.totalTokens)

\* mutant: the root span ends when it starts
createSessionSpan_endIsStart(session, sessionSpanId) ==
  [traceId |-> session.traceId,
   spanId |-> sessionSpanId,
   parentSpanId |-> null,
   operationName |-> <<"session">>,
   startTime |-> session.startTime,
   endTime |-> session.startTime,
   duration |-> Num(session.duration, 1),
   success |-> session.success,
   attributes |-> sessionAttributes(session)]

\* mutant: the root span is given itself as parent
createSessionSpan_selfParent(session, sessionSpanId) ==
  [traceId |-> session.traceId,
   spanId |-> sessionSpanId,
   parentSpanId |-> sessionSpanId,
   operationName |-> <<"session">>,
   startTime |-> session.startTime,
   endTime |-> session.endTime,
   duration |-> Num(session.duration, 1),
   success |-> session.success,
   attributes |-> sessionAttributes(session)]

createSessionSpan(session, sessionSpanId) ==
  [traceId |-> session.traceId,
   spanId |-> sessionSpanId,
   parentSpanId |-> null,
   operationName |-> <<"session">>,
   startTime |-> session.startTime,
   endTime |-> session.endTime,
   duration |-> Num(session.duration, 1),
   success |-> session.success,
   attributes |-> sessionAttributes(session)]

(* ----------------------------- span tree ------------------------------- *)
\* a time value that need not be an integer: ms + frac, 0 <= frac < 1
Time(ms, frac) == [ms |-> ms, frac |-> frac]

\* t + q for a time t and a number q of the denominator of t.frac
TimePlus(t, q) ==
  LET total == t.frac.num + q.num
  IN  Time(t.ms + total \div q.den, Num(total % q.den, q.den))

\* mutant: the gap is left out
AdvanceClock_noGap(t, d, gap) ==
  TimePlus(t, Num(IF d.num # 0 THEN d.num ELSE 0, d.den))

\* currentTime += (duration || 0) + gap
AdvanceClock(t, d, gap) ==
  TimePlus(t, Num((IF d.num # 0 THEN d.num ELSE 0) + gap * d.den, d.den))

\* new Date(t).getTime(): the time value is truncated to whole milliseconds
DateOf(t) == t.ms

\* getTaskDescription(agentType) on the draw x / RandMod
getTaskDescription(x, agentType) ==
  IF agentType \in DOMAIN taskDescriptions
    THEN randomChoice(x, taskDescriptions[agentType])
    ELSE "Perform agent task"

\* mutant: a task span is cut off at the end of its session
createTaskSpan_clamped(params, g) ==
  LET x1 == Advance(g)       \* 'ai.agent.id'
      x2 == Advance(x1)      \* 'task.type'
      x3 == Advance(x2)      \* 'task.description'
      x4 == Advance(x3)      \* error type, drawn only for a failed task
      ge == IF params.taskSuccess THEN x3 ELSE x4
      x5 == Advance(ge)      \* agentId
      x6 == Advance(x5)      \* taskType
      errorType == randomChoice(x4, errorTypes.task)
      base ==
        ("ai.agent.id" :> <<params.agentType.type, randomInt(x1, 1, 5)>>) @@
        ("ai.agent.type" :> params.agentType.type) @@
        ("ai.session.id" :> params.session.sessionId) @@
        ("ai.task.id" :> <<"task", params.taskIndex + 1>>) @@
        ("task.type" :> randomChoice(x2, taskTypes)) @@
        ("task.description" :> getTaskDescription(x3, params.agentType.type)) @@
        ("ai.agent.state" :> IF params.taskSuccess THEN "completed" ELSE "failed")
      attributes ==
        IF ~params.taskSuccess
          THEN base @@ ("error.type" :> errorType) @@
               ("error.message" :> ErrorMessage(errorType))
          ELSE base
  IN  [span |->
         [traceId |-> params.session.traceId,
          spanId |-> params.taskSpanId,
          parentSpanId |-> params.sessionSpanId,
          operationName |-> <<"agent-task", params.agentType.type>>,
          startTime |-> params.taskStartTime,
          endTime |-> IF params.taskEndTime > params.session.endTime
                        THEN params.session.endTime ELSE params.taskEndTime,
          duration |-> IF params.taskEndTime > params.session.endTime
                         THEN Num((params.session.endTime - params.taskStartTime)
                                    * params.taskDuration.den, params.taskDuration.den)
                         ELSE params.taskDuration,
          success |-> params.taskSuccess,
          agentId |-> <<params.agentType.type, randomInt(x5, 1, 5)>>,
          agentType |-> params.agentType.type,
          taskType |-> randomChoice(x6, taskTypes),
          attributes |-> attributes],
       g |-> x6]

\* params as in the source; g is the generator state before the call
createTaskSpan(params, g) ==
  LET x1 == Advance(g)       \* 'ai.agent.id'
      x2 == Advance(x1)      \* 'task.type'
      x3 == Advance(x2)      \* 'task.description'
      x4 == Advance(x3)      \* error type, drawn only for a failed task
      ge == IF params.taskSuccess THEN x3 ELSE x4
      x5 == Advance(ge)      \* agentId
      x6 == Advance(x5)      \* taskType
      errorType == randomChoice(x4, errorTypes.task)
      base ==
        ("ai.agent.id" :> <<params.agentType.type, randomInt(x1, 1, 5)>>) @@
        ("ai.agent.type" :> params.agentType.type) @@
        ("ai.session.id" :> params.session.sessionId) @@
        ("ai.task.id" :> <<"task", params.taskIndex + 1>>) @@
        ("task.type" :> randomChoice(x2, taskTypes)) @@
        ("task.description" :> getTaskDescription(x3, params.agentType.type)) @@
        ("ai.agent.state" :> IF params.taskSuccess THEN "completed" ELSE "failed")
      attributes ==
        IF ~params.taskSuccess
          THEN base @@ ("error.type" :> errorType) @@
               ("error.message" :> ErrorMessage(errorType))
          ELSE base
  IN  [span |->
         [traceId |-> params.session.traceId,
          spanId |-> params.taskSpanId,
          parentSpanId |-> params.sessionSpanId,
          operationName |-> <<"agent-task", params.agentType.type>>,
          startTime |-> params.taskStartTime,
          endTime |-> params.taskEndTime,
          duration |-> params.taskDuration,
          success |-> params.taskSuccess,
          agentId |-> <<params.agentType.type, randomInt(x5, 1, 5)>>,
          agentType |-> params.agentType.type,
          taskType |-> randomChoice(x6, taskTypes),
          attributes |-> attributes],
       g |-> x6]

\* mutant: the call's success ignores the task's
llmSuccess_independent(taskSuccess, x) == DrawAbove(x, 5)

\* taskSuccess && Math.random() > 0.05 on the draw x / RandMod
llmSuccess(taskSuccess, x) == taskSuccess /\ DrawAbove(x, 5)

\* mutant: a failed call reports output tokens as a succeeded one does
outputTokens_always(succ, x, llmModel) ==
  randomInt(x, (llmModel.avgOutputTokens * 5) \div 10,
               (llmModel.avgOutputTokens * 15) \div 10)

\* llmSuccess ? randomInt(avgOutputTokens * 0.5, avgOutputTokens * 1.5) : 0
\* on the draw x / RandMod (consumed only when succ)
outputTokens(succ, x, llmModel) ==
  IF succ
    THEN randomInt(x, (llmModel.avgOutputTokens * 5) \div 10,
                      (llmModel.avgOutputTokens * 15) \div 10)
    ELSE 0

\* the body of the loop of generateLLMSpans, iterations j .. numLLMCalls - 1;
\* llmStartTime is an integer, id is the next fresh identifier
RECURSIVE LLMLoop(_, _, _, _, _, _, _, _, _)
LLMLoop(session, taskSpanId, taskSuccess, taskIndex, numLLMCalls, j, llmStartTime, g, id) ==
  IF j >= numLLMCalls THEN [spans |-> <<>>, g |-> g, id |-> id]
  ELSE
    LET x1 == Advance(g)
        llmModel == randomChoice(x1, llmModels)
        x2 == Advance(x1)
        llmDuration == randomInt(x2, 800, 3000)
        x3 == Advance(x2)    \* drawn only when taskSuccess
        succ == llmSuccess(taskSuccess, x3)
        g3 == IF taskSuccess THEN x3 ELSE x2
        x4 == Advance(g3)
        inputTokens == randomInt(x4, (llmModel.avgInputTokens * 5) \div 10,
                                     (llmModel.avgInputTokens * 15) \div 10)
        x5 == Advance(x4)    \* drawn only when the call succeeds
        outTokens == outputTokens(succ, x5, llmModel)
        g5 == IF succ THEN x5 ELSE x4
        x6 == Advance(g5)    \* 'llm.request.type'
        x7 == Advance(x6)    \* 'llm.temperature'
        x8 == Advance(x7)    \* error type, drawn only for a failed call
        errorType == randomChoice(x8, errorTypes.llm)
        g8 == IF succ THEN x7 ELSE x8
        x9 == Advance(g8)    \* the gap before the next call
        base ==
          ("ai.llm.model" :> llmModel.name) @@
          ("ai.token.count.input" :> inputTokens) @@
          ("ai.token.count.output" :> outTokens) @@
          ("ai.session.id" :> session.sessionId) @@
          ("ai.task.id" :> <<"task", taskIndex + 1>>) @@
          ("llm.request.type" :> randomChoice(x6, llmRequestTypes)) @@
          ("llm.temperature" :> Num(RandMod + 8 * x7, 10 * RandMod))
        attributes ==
          IF ~succ
            THEN base @@ ("error.type" :> errorType) @@
                 ("error.message" :> ErrorMessage(errorType))
            ELSE base
        llmSpan ==
          [traceId |-> session.traceId,
           spanId |-> id,
           parentSpanId |-> taskSpanId,
           operationName |-> <<"llm", llmModel.name>>,
           startTime |-> llmStartTime,
           endTime |-> llmStartTime + llmDuration,
           duration |-> Num(llmDuration, 1),
           success |-> succ,
           model |-> llmModel.name,
           inputTokens |-> inputTokens,
           outputTokens |-> outTokens,
           attributes |-> attributes]
        rest == LLMLoop(session, taskSpanId, taskSuccess, taskIndex, numLLMCalls,
                        j + 1, llmStartTime + llmDuration + randomInt(x9, 100, 500),
                        x9, id + 1)
    IN  [spans |-> <<llmSpan>> \o rest.spans, g |-> rest.g, id |-> rest.id]

\* mutant: the first call starts before the task
generateLLMSpans_startsEarlier(session, taskSpanId, taskStartTime, taskDuration, taskSuccess, taskIndex, g, id) ==
  LET x1 == Advance(g)
      numLLMCalls == randomInt(x1, 1, 3)
      x2 == Advance(x1)
      zero == Num(0, taskDuration.den * 5)
      llmStartTime ==
        taskStartTime - Floor(randomIntQ(x2, zero, Times(taskDuration, 1, 5)))
  IN  LLMLoop(session, taskSpanId, taskSuccess, taskIndex, numLLMCalls, 0,
              llmStartTime, x2, id)

\* mutant: up to four calls
generateLLMSpans_fourCalls(session, taskSpanId, taskStartTime, taskDuration, taskSuccess, taskIndex, g, id) ==
  LET x1 == Advance(g)
      numLLMCalls == randomInt(x1, 1, 4)
      x2 == Advance(x1)
      zero == Num(0, taskDuration.den * 5)
      llmStartTime ==
        taskStartTime + Floor(randomIntQ(x2, zero, Times(taskDuration, 1, 5)))
  IN  LLMLoop(session, taskSpanId, taskSuccess, taskIndex, numLLMCalls, 0,
              llmStartTime, x2, id)

\* taskStartTime is the Date's time value (an integer), taskDuration a Num
generateLLMSpans(session, taskSpanId, taskStartTime, taskDuration, taskSuccess, taskIndex, g, id) ==
  LET x1 == Advance(g)
      numLLMCalls == randomInt(x1, 1, 3)
      x2 == Advance(x1)
      zero == Num(0, taskDuration.den * 5)
      llmStartTime ==
        taskStartTime + Floor(randomIntQ(x2, zero, Times(taskDuration, 1, 5)))
  IN  LLMLoop(session, taskSpanId, taskSuccess, taskIndex, numLLMCalls, 0,
              llmStartTime, x2, id)

\* taskSuccess && Math.random() > 0.08 on the draw x / RandMod
toolSuccess(taskSuccess, x) == taskSuccess /\ DrawAbove(x, 8)

\* the body of the loop of generateToolSpans, iterations k .. numToolCalls - 1;
\* toolStartTime is a Time, id is the next fresh identifier
RECURSIVE ToolLoop(_, _, _, _, _, _, _, _, _, _)
ToolLoop(session, taskSpanId, agentType, taskSuccess, taskIndex, numToolCalls, k, toolStartTime, g, id) ==
  IF k >= numToolCalls THEN [spans |-> <<>>, g |-> g, id |-> id]
  ELSE
    LET den == toolStartTime.frac.den
        x1 == Advance(g)
        toolName == randomChoice(x1, agentType.toolUsage)
        x2 == Advance(x1)
        toolDuration == randomInt(x2, 200, 2000)
        x3 == Advance(x2)    \* drawn only when taskSuccess
        succ == toolSuccess(taskSuccess, x3)
        g3 == IF taskSuccess THEN x3 ELSE x2
        x4 == Advance(g3)
        inputSize == randomInt(x4, 100, 5000)
        x5 == Advance(x4)    \* drawn only when the call succeeds
        outputSize == IF succ THEN randomInt(x5, 50, 3000) ELSE 0
        g5 == IF succ THEN x5 ELSE x4
        x6 == Advance(g5)    \* 'tool.operation'
        x7 == Advance(x6)    \* error type, drawn only for a failed call
        errorType == randomChoice(x7, errorTypes.tool)
        g7 == IF succ THEN x6 ELSE x7
        x8 == Advance(g7)    \* the gap before the next call
        base ==
          ("ai.tool.name" :> toolName) @@
          ("tool.input_size" :> inputSize) @@
          ("tool.output_size" :> outputSize) @@
          ("ai.session.id" :> session.sessionId) @@
          ("ai.task.id" :> <<"task", taskIndex + 1>>) @@
          ("tool.operation" :> randomChoice(x6, toolOperations))
        attributes ==
          IF ~succ
            THEN base @@ ("error.type" :> errorType) @@
                 ("error.message" :> ErrorMessage(errorType))
            ELSE base
        toolSpan ==
          [traceId |-> session.traceId,
           spanId |-> id,
           parentSpanId |-> taskSpanId,
           operationName |-> <<"tool", toolName>>,
           startTime |-> DateOf(toolStartTime),
           endTime |-> DateOf(TimePlus(toolStartTime, Num(toolDuration * den, den))),
           duration |-> Num(toolDuration, 1),
           success |-> succ,
           toolName |-> toolName,
           attributes |-> attributes]
        rest == ToolLoop(session, taskSpanId, agentType, taskSuccess, taskIndex,
                         numToolCalls, k + 1,
                         TimePlus(toolStartTime,
                                  Num((toolDuration + randomInt(x8, 50, 200)) * den, den)),
                         x8, id + 1)
    IN  [spans |-> <<toolSpan>> \o rest.spans, g |-> rest.g, id |-> rest.id]

\* mutant: the tools are those of the first agent type of the catalog
generateToolSpans_firstAgent(session, taskSpanId, agentType, taskStartTime, taskDuration, taskSuccess, taskIndex, g, id) ==
  LET x1 == Advance(g)
      numToolCalls == randomInt(x1, 1, 3)
      x2 == Advance(x1)
      offset == randomIntQ(x2, Times(taskDuration, 1, 10), Times(taskDuration, 8, 10))
      toolStartTime == TimePlus(Time(taskStartTime, Num(0, offset.den)), offset)
  IN  ToolLoop(session, taskSpanId, agentTypes[1], taskSuccess, taskIndex, numToolCalls,
               0, toolStartTime, x2, id)

generateToolSpans(session, taskSpanId, agentType, taskStartTime, taskDuration, taskSuccess, taskIndex, g, id) ==
  LET x1 == Advance(g)
      numToolCalls == randomInt(x1, 1, 3)
      x2 == Advance(x1)
      offset == randomIntQ(x2, Times(taskDuration, 1, 10), Times(taskDuration, 8, 10))
      toolStartTime == TimePlus(Time(taskStartTime, Num(0, offset.den)), offset)
  IN  ToolLoop(session, taskSpanId, agentType, taskSuccess, taskIndex, numToolCalls,
               0, toolStartTime, x2, id)

\* the end of generateTaskSpan: "Generate tool spans" and the return; done
\* are the spans pushed so far, the task span first
attachToolSpans(session, agentType, taskStartTime, taskDuration, taskIndex, done, g, id) ==
  LET xt == Advance(g)       \* Math.random() > 0.4
      tool == IF DrawAbove(xt, 40)
                THEN generateToolSpans(session, done[1].spanId, agentType, taskStartTime,
                                       taskDuration, done[1].success, taskIndex, xt, id)
                ELSE [spans |-> <<>>, g |-> xt, id |-> id]
  IN  [spans |-> done \o tool.spans, g |-> tool.g, id |-> tool.id]

\* the middle of generateTaskSpan: "Generate LLM spans", then the tool spans;
\* taskSpan.spanId is taskSpanId and taskSpan.success is taskSuccess
attachLLMSpans(session, agentType, taskStartTime, taskDuration, taskIndex, taskSpan, g, id) ==
  LET xl == Advance(g)       \* Math.random() > 0.3
      llm == IF DrawAbove(xl, 30)
               THEN generateLLMSpans(session, taskSpan.spanId, taskStartTime, taskDuration,
                                     taskSpan.success, taskIndex, xl, id)
               ELSE [spans |-> <<>>, g |-> xl, id |-> id]
  IN  attachToolSpans(session, agentType, taskStartTime, taskDuration, taskIndex,
                      <<taskSpan>> \o llm.spans, llm.g, llm.id)

\* mutant: the cascade draw is made for every task of a succeeded session
taskSuccess_cascadeAnywhere(session, taskIndex, g) ==
  LET xa == Advance(g)
      cascade == session.success /\ DrawAbove(xa, 70)
      ga == IF session.success THEN xa ELSE g
      xb == Advance(ga)
  IN  [success |-> session.success /\ ~cascade /\ DrawAbove(xb, 10),
       cascade |-> cascade,
       g |-> IF session.success /\ ~cascade THEN xb ELSE ga]

\* session.success && !(taskIndex > session.numTasks * 0.6 && Math.random() > 0.7)
\*                 && Math.random() > 0.1, with the short-circuits of &&;
\* g is the generator state before it, cascade tells that the cascade draw
\* was made and exceeded 0.7
taskSuccess(session, taskIndex, g) ==
  LET late == 10 * taskIndex > 6 * session.numTasks
      xa == Advance(g)       \* the cascade draw, only for a late task
      cascade == session.success /\ late /\ DrawAbove(xa, 70)
      ga == IF session.success /\ late THEN xa ELSE g
      xb == Advance(ga)      \* the 90% draw, only when not cascaded
  IN  [success |-> session.success /\ ~cascade /\ DrawAbove(xb, 10),
       cascade |-> cascade,
       g |-> IF session.success /\ ~cascade THEN xb ELSE ga]

\* currentTime is a Time and avgTaskDuration a Num of the same denominator
\* as currentTime.frac after Times(., 1, 2); g is the generator state before
\* the call and id the next fresh identifier
generateTaskSpan(session, sessionSpanId, taskIndex, currentTime, avgTaskDuration, g, id) ==
  LET x1 == Advance(g)
      agentType == randomChoice(x1, agentTypes)
      x2 == Advance(x1)
      taskDuration == randomIntQ(x2, Times(avgTaskDuration, 1, 2),
                                     Times(avgTaskDuration, 3, 2))
      taskStartTime == DateOf(currentTime)
      taskEndTime == DateOf(TimePlus(currentTime, taskDuration))
      outcome == taskSuccess(session, taskIndex, x2)
      taskSpanId == id
      task == createTaskSpan([session |-> session, taskSpanId |-> taskSpanId,
                              sessionSpanId |-> sessionSpanId, agentType |-> agentType,
                              taskStartTime |-> taskStartTime,
                              taskEndTime |-> taskEndTime,
                              taskDuration |-> taskDuration,
                              taskSuccess |-> outcome.success, taskIndex |-> taskIndex],
                             outcome.g)
  IN  attachLLMSpans(session, agentType, taskStartTime, taskDuration, taskIndex,
                     task.span, task.g, id + 1)

(* ------------------------------ aggregation ---------------------------- *)
\* a JavaScript number that may fail to be finite
Finite(q) == [kind |-> "finite", value |-> q]
NaN == [kind |-> "NaN"]
Infinity == [kind |-> "Infinity"]
NegInfinity == [kind |-> "-Infinity"]

\* a / b for integers a >= 0, b >= 0
Divide(a, b) ==
  IF b # 0 THEN Finite(Num(a, b))
  ELSE IF a = 0 THEN NaN ELSE Infinity

\* Math.min(...values) and Math.max(...values) for a sequence of integers
\* mutant: the first value is taken for the least
MathMin_first(values) ==
  IF Len(values) = 0 THEN Infinity ELSE Finite(Num(values[1], 1))

MathMin(values) ==
  IF Len(values) = 0 THEN Infinity
  ELSE Finite(Num(CHOOSE v \in {values[n] : n \in 1..Len(values)} :
                    \A m \in 1..Len(values) : v <= values[m], 1))

MathMax(values) ==
  IF Len(values) = 0 THEN NegInfinity
  ELSE Finite(Num(CHOOSE v \in {values[n] : n \in 1..Len(values)} :
                    \A m \in 1..Len(values) : v >= values[m], 1))

\* the object literal that generateSampleTraceData returns
DashboardData(ss, sp) ==
  [sessions |-> ss,
   spans |-> sp,
   summary |->
     [totalSessions |-> Len(ss),
      totalSpans |-> Len(sp),
      timeRange |->
        [start |-> MathMin([n \in 1..Len(ss) |-> ss[n].startTime]),
         end |-> MathMax([n \in 1..Len(ss) |-> ss[n].endTime])],
      agentTypes |-> [a \in 1..Len(agentTypes) |-> agentTypes[a].type],
      successRate |->
        Divide(Cardinality({n \in 1..Len(ss) : ss[n].success}), Len(ss))]]

(* ---------------------------- state machine ---------------------------- *)
\* mutant: the loop over sessions runs once more
SessionLoopTest_inclusive(idx, n) == idx <= n

\* the test of the loop over sessions: i < numSessions
SessionLoopTest(idx, n) == idx < n

\* mutant: the loop over tasks runs once more
TaskLoopTest_inclusive(idx, session) == idx <= session.numTasks

\* the test of the loop over tasks: i < session.numTasks
TaskLoopTest(idx, session) == idx < session.numTasks

\* the body of the task loop of generateSpansForSession on the loop's
\* state and the spans generateTaskSpan returned
TaskLoopBody(loop, taskSpans) ==
  [taskI |-> loop.taskI + 1,
   currentTime |-> AdvanceClock(loop.currentTime, taskSpans.spans[1].duration,
                                randomInt(Advance(taskSpans.g), 100, 1000)),
   rng |-> Advance(taskSpans.g),
   nextId |-> taskSpans.id,
   spans |-> loop.spans \o taskSpans.spans]

\* the task loop of generateSpansForSession run to its end
RECURSIVE TaskLoop(_, _, _)
TaskLoop(session, sessionSpanId, loop) ==
  IF ~TaskLoopTest(loop.taskI, session) THEN loop
  ELSE TaskLoop(session, sessionSpanId,
                TaskLoopBody(loop,
                             generateTaskSpan(session, sessionSpanId, loop.taskI,
                                              loop.currentTime,
                                              Num(session.duration, session.numTasks),
                                              loop.rng, loop.nextId)))

\* generateSpansForSession(session) as one computation
generateSpansForSession(session, g, id) ==
  TaskLoop(session, id,
           [taskI |-> 0,
            currentTime |-> Time(session.startTime, Num(0, 2 * session.numTasks)),
            rng |-> g,
            nextId |-> id + 1,
            spans |-> <<createSessionSpan(session, id)>>])

\* the body of the session loop of generateSampleTraceData
SessionLoopBody(loop, session, sessionSpans) ==
  [i |-> loop.i + 1,
   sessions |-> Append(loop.sessions, session),
   allSpans |-> loop.allSpans \o sessionSpans.spans,
   rng |-> sessionSpans.rng,
   nextId |-> sessionSpans.nextId]

\* the session loop of generateSampleTraceData run to its end, with
\* Date.now() returning now throughout
RECURSIVE SessionLoop(_, _, _)
SessionLoop(n, now, loop) ==
  IF ~SessionLoopTest(loop.i, n) THEN loop
  ELSE SessionLoop(n, now,
         SessionLoopBody(loop, generateSession(loop.rng, loop.nextId, now).session,
                         generateSpansForSession(
                           generateSession(loop.rng, loop.nextId, now).session,
                           generateSession(loop.rng, loop.nextId, now).g,
                           loop.nextId + 1)))

\* generateSampleTraceData(n) as one computation from the generator state g
generateSampleTraceData(n, g, now) ==
  SessionLoop(n, now, [i |-> 0, sessions |-> <<>>, allSpans |-> <<>>,
                       rng |-> g, nextId |-> 1])

VARIABLES
  pc,            \* "loop": at the test of the session loop; "tasks": at the
                 \* test of the task loop of generateSpansForSession; "done":
                 \* generateSampleTraceData has returned; "mount":
                 \* ModernDashboard is rendered, its effects have not run;
                 \* "ready": the
                 \* dashboard has set its data; "randomInt": in a call
                 \* of randomInt taken alone; "returned": after it
  numSessions,   \* the argument of generateSampleTraceData
  i,             \* the session loop's index
  sessions,      \* sessions
  sessionComplexity, \* the draw of the last generateSession(), over RandMod
  successRate,   \* its successRate, in percent
  allSpans,      \* allSpans
  spans,         \* spans of the running generateSpansForSession
  sessionSpanId, \* its sessionSpanId
  taskI,         \* its loop index i
  currentTime,   \* its currentTime
  rng,           \* the state of the generator behind Math.random()
  nextId,        \* the next identifier uuidv4() returns
  clock,         \* the last value of Date.now()
  result,        \* the returned DashboardData; the dashboard's data
  activeTab,     \* ModernDashboard: activeTab
  selectedSessionId, \* ModernDashboard: selectedSessionId
  filterStatus,  \* SessionsTab: filterStatus
  sortColumn,    \* the sessions Table: sortColumn
  sortDirection, \* the sessions Table: sortDirection
  currentPage,   \* the sessions Table: currentPage
  selectedTraceId, \* WaterfallTab: selectedTraceId, null while it is not mounted
  expandedSpans, \* WaterfallTab: expandedSpans, a set of spanIds
  selectedSpan,  \* WaterfallTab: the spanId of selectedSpan, or null
  theme,         \* ModernDashboard: theme
  localStorage,  \* window.localStorage: its items, records [key, value]
  documentElement, \* document.documentElement: its attributes, records
                 \* [name, value]
  call,          \* randomInt alone: the call site, the value Math.random()
                 \* returns over FineMod, and the arguments min and max
  drawn          \* randomInt alone: the value returned, null before

\* the state of the dashboard's components
uiVars == <<activeTab, selectedSessionId, filterStatus, sortColumn,
            sortDirection, currentPage, selectedTraceId, expandedSpans,
            selectedSpan>>

\* the state of WaterfallTab
waterfallVars == <<selectedTraceId, expandedSpans, selectedSpan>>

\* the state of the generator
genLocals == <<pc, numSessions, i, sessions, sessionComplexity, successRate, allSpans,
               spans, sessionSpanId, taskI, currentTime, rng, nextId, clock,
               call, drawn>>
genVars == <<genLocals, result>>

\* the theme of the dashboard and where it is kept
themeVars == <<theme, localStorage, documentElement>>

vars == <<genVars, uiVars, themeVars>>

\* localStorage.getItem(key) finds an item
hasItem(storage, key) == \E item \in storage : item.key = key

\* localStorage.getItem(key), where there is one
getItem(storage, key) == (CHOOSE item \in storage : item.key = key).value

\* localStorage.setItem(key, value)
setItem(storage, key, value) ==
  {item \in storage : item.key # key} \cup {[key |-> key, value |-> value]}

\* root.removeAttribute(name)
removeAttribute(root, name) == {attr \in root : attr.name # name}

\* root.setAttribute(name, value)
setAttribute(root, name, value) ==
  removeAttribute(root, name) \cup {[name |-> name, value |-> value]}

\* mutant: the attribute is set for 'auto' as well
applyTheme_setsAuto(newTheme) ==
  /\ documentElement' = setAttribute(documentElement, "data-theme", newTheme)
  /\ localStorage' = setItem(localStorage, "dashboard-theme", newTheme)

\* applyTheme(newTheme)
applyTheme(newTheme) ==
  /\ documentElement' =
       IF newTheme = "auto" THEN removeAttribute(documentElement, "data-theme")
       ELSE setAttribute(documentElement, "data-theme", newTheme)
  /\ localStorage' = setItem(localStorage, "dashboard-theme", newTheme)

\* a browser that has not shown the dashboard before, after the effect
\* of ModernDashboard that applies the saved theme: there is none, and
\* 'auto' is applied
Themed ==
  /\ localStorage = setItem({}, "dashboard-theme", "auto")
  /\ documentElement = {}

\* the useState() initial values of ModernDashboard, SessionsTab and Table
Mount ==
  /\ activeTab = "overview"
  /\ selectedSessionId = null
  /\ filterStatus = "all"
  /\ sortColumn = ""
  /\ sortDirection = "asc"
  /\ currentPage = 1
  /\ selectedTraceId = null
  /\ expandedSpans = {}
  /\ selectedSpan = null
  /\ theme = "auto"

\* the call generateSampleTraceData(numSessions) for a count of counts and
\* a generator state of seeds
Call(counts, seeds) ==
  /\ pc = "loop"
  /\ numSessions \in counts
  /\ i = 0
  /\ sessions = <<>>
  /\ sessionComplexity = 0
  /\ successRate = 0
  /\ allSpans = <<>>
  /\ spans = <<>>
  /\ sessionSpanId = null
  /\ taskI = 0
  /\ currentTime = Time(0, Num(0, 1))
  /\ rng \in seeds
  /\ nextId = 1
  /\ clock = BaseClock
  /\ result = <<>>
  /\ call = <<>>
  /\ drawn = null
  /\ Mount
  /\ Themed

Init == Call((0 - NegSessions)..MaxSessions, 0..MaxSeed)

\* one pass of the session loop up to the task loop: generateSession(),
\* sessions.push(session) and the head of generateSpansForSession(session)
GenerateSession ==
  /\ pc = "loop"
  /\ SessionLoopTest(i, numSessions)
  /\ \E tick \in 0..MaxTick :
       LET now == clock + tick
           gen == generateSession(rng, nextId, now)
           session == gen.session
       IN  /\ clock' = now
           /\ sessions' = Append(sessions, session)
           /\ sessionComplexity' = gen.sessionComplexity
           /\ successRate' = gen.successRate
           /\ sessionSpanId' = nextId + 1
           /\ spans' = <<createSessionSpan(session, nextId + 1)>>
           /\ currentTime' = Time(session.startTime, Num(0, 2 * session.numTasks))
           /\ rng' = gen.g
           /\ nextId' = nextId + 2
  /\ taskI' = 0
  /\ pc' = "tasks"
  /\ UNCHANGED <<numSessions, i, allSpans, result, call, drawn, uiVars, themeVars>>

\* mutant: the spans of a task go in front of the session's
PushTaskSpans_unshift(taskSpans) ==
  /\ spans' = taskSpans.spans \o spans
  /\ currentTime' = AdvanceClock(currentTime, taskSpans.spans[1].duration,
                                 randomInt(Advance(taskSpans.g), 100, 1000))
  /\ rng' = Advance(taskSpans.g)
  /\ nextId' = taskSpans.id

\* spans.push(...taskSpans) and the advance of currentTime by the task's
\* duration (0 if it is falsy) and a gap of randomInt(100, 1000)
PushTaskSpans(taskSpans) ==
  /\ spans' = spans \o taskSpans.spans
  /\ currentTime' = AdvanceClock(currentTime, taskSpans.spans[1].duration,
                                 randomInt(Advance(taskSpans.g), 100, 1000))
  /\ rng' = Advance(taskSpans.g)
  /\ nextId' = taskSpans.id

\* one iteration of the task loop of generateSpansForSession
GenerateTask ==
  /\ pc = "tasks"
  /\ LET session == sessions[Len(sessions)]
         avgTaskDuration == Num(session.duration, session.numTasks)
     IN  /\ TaskLoopTest(taskI, session)
         /\ PushTaskSpans(generateTaskSpan(session, sessionSpanId, taskI, currentTime,
                                           avgTaskDuration, rng, nextId))
  /\ taskI' = taskI + 1
  /\ UNCHANGED <<pc, numSessions, i, sessions, sessionComplexity, successRate,
                 allSpans, sessionSpanId, clock, result, call, drawn, uiVars, themeVars>>

\* generateSpansForSession returns: allSpans.push(...spans) and i++
FinishSession ==
  /\ pc = "tasks"
  /\ ~TaskLoopTest(taskI, sessions[Len(sessions)])
  /\ allSpans' = allSpans \o spans
  /\ spans' = <<>>
  /\ i' = i + 1
  /\ pc' = "loop"
  /\ UNCHANGED <<numSessions, sessions, sessionComplexity, successRate,
                 sessionSpanId, taskI, currentTime, rng, nextId, clock, result,
                 call, drawn, uiVars, themeVars>>

\* the session loop ends and generateSampleTraceData returns
Return ==
  /\ pc = "loop"
  /\ ~SessionLoopTest(i, numSessions)
  /\ result' = DashboardData(sessions, allSpans)
  /\ pc' = "done"
  /\ UNCHANGED <<numSessions, i, sessions, sessionComplexity, successRate,
                 allSpans, spans, sessionSpanId, taskI, currentTime, rng, nextId,
                 clock, call, drawn, uiVars, themeVars>>

Next == GenerateSession \/ GenerateTask \/ FinishSession \/ Return

Spec == Init /\ [][Next]_vars

\* generateSession() alone, once, on every complexity score: the first draw
\* Advance(rng) ranges over all of 0..RandMod-1
InitSession == Call({1}, 0..(RandMod - 1))
NextSession == GenerateSession
SpecSession == InitSession /\ [][NextSession]_vars

\* generateSampleTraceData(1) from every state of the generator
SpecOneSession == InitSession /\ [][Next]_vars

(* ---------------------------- randomInt alone --------------------------- *)
\* the values Math.random() returns to the calls below, over FineMod: the
\* least, the middle one and the greatest
fineDraws == {0, FineMod \div 2, FineMod - 1}

\* generateTaskSpan calls randomInt(avgTaskDuration * 0.5, avgTaskDuration *
\* 1.5) for a session of the simple tier: duration from 30000 on, 2 to 8
\* tasks; Math.random() returns any of fineDraws
CallTaskDuration ==
  /\ pc = "randomInt"
  /\ \E duration \in 30000..(30000 + DurationSpan) : \E tasks \in 2..8 :
     \E x \in fineDraws :
       call = [site |-> "taskDuration", random |-> x,
               min |-> Times(Num(duration, tasks), 1, 2),
               max |-> Times(Num(duration, tasks), 3, 2)]
  /\ drawn = null
  /\ numSessions = 0
  /\ i = 0
  /\ sessions = <<>>
  /\ sessionComplexity = 0
  /\ successRate = 0
  /\ allSpans = <<>>
  /\ spans = <<>>
  /\ sessionSpanId = null
  /\ taskI = 0
  /\ currentTime = Time(0, Num(0, 1))
  /\ rng = 0
  /\ nextId = 1
  /\ clock = BaseClock
  /\ result = <<>>
  /\ Mount
  /\ Themed

\* randomInt returns: Math.floor(Math.random() * (max - min + 1)) + min
ReturnRandomInt ==
  /\ pc = "randomInt"
  /\ drawn' = randomIntOn(call.random, FineMod, call.min, call.max)
  /\ pc' = "returned"
  /\ UNCHANGED <<numSessions, i, sessions, sessionComplexity, successRate,
                 allSpans, spans, sessionSpanId, taskI, currentTime, rng, nextId,
                 clock, result, call, uiVars, themeVars>>

\* generateLLMSpans calls randomInt(0, taskDuration * 0.2) on the duration
\* generateTaskSpan drew
CallLLMStartTime ==
  /\ pc = "returned" /\ call.site = "taskDuration"
  /\ \E x \in fineDraws :
       call' = [site |-> "llmStartTime", random |-> x,
                min |-> Num(0, drawn.den * 5),
                max |-> Times(drawn, 1, 5)]
  /\ drawn' = null
  /\ pc' = "randomInt"
  /\ UNCHANGED <<numSessions, i, sessions, sessionComplexity, successRate,
                 allSpans, spans, sessionSpanId, taskI, currentTime, rng, nextId,
                 clock, result, uiVars, themeVars>>

NextRandomInt == ReturnRandomInt \/ CallLLMStartTime

SpecRandomInt == CallTaskDuration /\ [][NextRandomInt]_vars

(* ------------------------------ dashboard ------------------------------ *)
\* the number of sessions the dashboard generates (150 in the source) and
\* the generator state it starts from
DashboardSessions == 21
DashboardSeed == 0

\* the Waterfall tab taken alone: the number of sessions generated and the
\* number of children of a root the user clicks on
WaterfallSessions == 3
WaterfallClicks == 1

itemsPerPage == 20
tracesShown == 15

tabs == <<"overview", "sessions", "spans", "traces", "waterfall">>

\* sessionColumns: the key of each column and whether it is sortable
sessionColumns ==
  <<[key |-> "sessionId", sortable |-> TRUE],
    [key |-> "startTime", sortable |-> TRUE],
    [key |-> "duration", sortable |-> TRUE],
    [key |-> "stats", sortable |-> FALSE],
    [key |-> "success", sortable |-> FALSE]>>

\* the callbacks of Array.prototype.sort: order.kind = "table" is the
\* callback of Table's sortedData on order.column and order.direction,
\* "startTime" the callback of WaterfallTab's selectedSpans,
\* a.startTime - b.startTime; a session's startTime is a Date object, which
\* === only itself
Comparison(a, b, order) ==
  IF order.kind = "table"
    THEN IF (IF order.column = "startTime" THEN a.sessionId = b.sessionId
             ELSE a[order.column] = b[order.column]) THEN 0
         ELSE LET comparison == IF a[order.column] < b[order.column] THEN 0 - 1 ELSE 1
              IN  IF order.direction = "asc" THEN comparison ELSE 0 - comparison
    ELSE a.startTime - b.startTime

\* x inserted into the sorted array: before the first element that the
\* callback puts after x
Insert(array, x, order) ==
  LET after == {p \in 1..Len(array) : Comparison(array[p], x, order) > 0}
      at == IF after = {} THEN Len(array) + 1
            ELSE CHOOSE p \in after : \A q \in after : p <= q
  IN  SubSeq(array, 1, at - 1) \o <<x>> \o SubSeq(array, at, Len(array))

\* [...array].sort(callback), a stable insertion sort
RECURSIVE Sort(_, _)
Sort(array, order) ==
  IF array = <<>> THEN <<>>
  ELSE Insert(Sort(SubSeq(array, 1, Len(array) - 1), order), array[Len(array)], order)

\* SessionsTab: filteredSessions, while searchTerm is '' as it is initially
filteredSessions ==
  SelectSeq(result.sessions,
            LAMBDA session :
              \/ filterStatus = "all"
              \/ filterStatus = "success" /\ session.success
              \/ filterStatus = "failed" /\ ~session.success)

\* Table: sortedData, totalPages and paginatedData
sortedData ==
  IF sortColumn = "" THEN filteredSessions
  ELSE Sort(filteredSessions,
            [kind |-> "table", column |-> sortColumn, direction |-> sortDirection])

totalPages == (Len(sortedData) + itemsPerPage - 1) \div itemsPerPage

paginatedData ==
  SubSeq(sortedData, (currentPage - 1) * itemsPerPage + 1,
         IF currentPage * itemsPerPage < Len(sortedData)
           THEN currentPage * itemsPerPage ELSE Len(sortedData))

\* WaterfallTab: the initial value of selectedTraceId
defaultTraceId(data, sessionId) ==
  IF sessionId # null
    THEN LET found == {k \in 1..Len(data.sessions) : data.sessions[k].sessionId = sessionId}
         IN  IF found = {} THEN null
             ELSE data.sessions[CHOOSE k \in found : \A q \in found : k <= q].traceId
    ELSE IF Len(data.sessions) > 0 THEN data.sessions[1].traceId ELSE null

\* WaterfallTab: traces = data.sessions.slice(0, 15)
traces ==
  SubSeq(result.sessions, 1,
         IF Len(result.sessions) < tracesShown THEN Len(result.sessions) ELSE tracesShown)

\* what Array.prototype.find returns when no element matches
undefined == [type |-> "undefined"]

\* traces.find(trace => trace.traceId === traceId)
findTrace(traceId) ==
  LET found == {k \in 1..Len(traces) : traces[k].traceId = traceId}
  IN  IF found = {} THEN undefined
      ELSE traces[CHOOSE k \in found : \A q \in found : k <= q]

\* WaterfallTab: selectedTrace
selectedTrace == findTrace(selectedTraceId)

\* WaterfallTab: selectedSpans
selectedSpans ==
  IF selectedTrace # undefined
    THEN Sort(SelectSeq(result.spans, LAMBDA span : span.traceId = selectedTrace.traceId),
              [kind |-> "startTime"])
    ELSE <<>>

\* buildSpanTree: the spanIds of the root nodes of the tree of the spans of
\* trace, the spans whose parent is not a span of the trace; none when
\* there is no selected trace
spanTree(trace) ==
  IF trace = undefined THEN {}
  ELSE LET shown == {n \in 1..Len(result.spans) : result.spans[n].traceId = trace.traceId}
       IN  {result.spans[n].spanId :
              n \in {k \in shown :
                       \/ result.spans[k].parentSpanId = null
                       \/ \A q \in shown :
                            result.spans[q].spanId # result.spans[k].parentSpanId}}

\* the spanIds of the children of the nodes roots
childrenOf(roots) ==
  {result.spans[n].spanId :
     n \in {k \in 1..Len(result.spans) : result.spans[k].parentSpanId \in roots}}

\* WaterfallTab's effect on the tree of trace and expandedSpans = expanded:
\* if the tree has nodes and nothing is expanded, the roots and their
\* children are expanded
expandEffect(trace, expanded) ==
  IF spanTree(trace) # {} /\ expanded = {}
    THEN spanTree(trace) \cup childrenOf(spanTree(trace))
    ELSE expanded

\* ModernDashboard after its effect has run, with Date.now() constant
\* throughout: setData(generateSampleTraceData(n)) for n in counts and
\* setIsLoading(false); the generator's locals are gone
Loaded(counts, seeds) ==
  /\ pc = "ready"
  /\ numSessions \in counts
  /\ \E seed \in seeds :
       LET loop == generateSampleTraceData(numSessions, seed, BaseClock)
       IN  /\ result = DashboardData(loop.sessions, loop.allSpans)
           /\ rng = loop.rng
           /\ nextId = loop.nextId
  /\ i = numSessions
  /\ sessions = <<>>
  /\ sessionComplexity = 0
  /\ successRate = 0
  /\ allSpans = <<>>
  /\ spans = <<>>
  /\ sessionSpanId = null
  /\ taskI = 0
  /\ currentTime = Time(0, Num(0, 1))
  /\ clock = BaseClock
  /\ call = <<>>
  /\ drawn = null
  /\ Mount
  /\ Themed

InitDashboard == Loaded({DashboardSessions}, {DashboardSeed})

\* mutant: the sessions tab sorts data.sessions itself
rendered_inPlace(data, tab) ==
  IF tab = "sessions"
    THEN [data EXCEPT !.sessions =
            Sort(@, [kind |-> "table", column |-> "duration", direction |-> "asc"])]
    ELSE data

\* the dashboard's data after tab is rendered.  Array.prototype.sort
\* reorders the array it is called on: OverviewTab calls it on
\* [...data.spans], Table on [...data] (data being the array
\* data.sessions.filter() returned), WaterfallTab on the array
\* data.spans.filter() returned; filter and slice return new arrays
rendered(data, tab) == data

\* the render that follows a change of state, tab being the active tab
Rerender(tab) ==
  /\ result' = rendered(result, tab)
  /\ UNCHANGED genLocals

\* a tab other than the active one is rendered: the components of the old
\* tab unmount, those of tab mount with their initial state and run their
\* effects; sessionId is the selectedSessionId the tab is rendered with
Render(tab, sessionId) ==
  /\ filterStatus' = "all"
  /\ sortColumn' = ""
  /\ sortDirection' = "asc"
  /\ currentPage' = 1
  /\ selectedTraceId' = IF tab = "waterfall"
                          THEN defaultTraceId(result, sessionId)
                          ELSE null
  /\ selectedSpan' = null
  /\ expandedSpans' =
       IF tab = "waterfall"
         THEN expandEffect(findTrace(defaultTraceId(result, sessionId)), {})
         ELSE {}

\* a click on a button of the tab bar: setActiveTab(tab.key)
SetActiveTab(tab) ==
  /\ pc = "ready"
  /\ activeTab' = tab
  /\ UNCHANGED selectedSessionId
  /\ IF tab # activeTab THEN Render(tab, selectedSessionId)
     ELSE UNCHANGED <<filterStatus, sortColumn, sortDirection,
                      currentPage, waterfallVars>>
  /\ Rerender(tab)
  /\ UNCHANGED themeVars

\* a click on a status filter: setFilterStatus(status)
SetFilterStatus(status) ==
  /\ pc = "ready" /\ activeTab = "sessions"
  /\ filterStatus' = status
  /\ Rerender(activeTab)
  /\ UNCHANGED themeVars
  /\ UNCHANGED <<activeTab, selectedSessionId, sortColumn,
                 sortDirection, currentPage, waterfallVars>>

\* mutant: the page is kept
handleSort_keepsPage(columnKey) ==
  /\ IF sortColumn = columnKey
       THEN /\ sortDirection' = IF sortDirection = "asc" THEN "desc" ELSE "asc"
            /\ UNCHANGED sortColumn
       ELSE /\ sortColumn' = columnKey
            /\ sortDirection' = "asc"
  /\ UNCHANGED currentPage

\* handleSort(columnKey)
handleSort(columnKey) ==
  /\ IF sortColumn = columnKey
       THEN /\ sortDirection' = IF sortDirection = "asc" THEN "desc" ELSE "asc"
            /\ UNCHANGED sortColumn
       ELSE /\ sortColumn' = columnKey
            /\ sortDirection' = "asc"
  /\ currentPage' = 1

\* a click on the header of column: column.sortable && handleSort(column.key)
ClickHeader(column) ==
  /\ pc = "ready" /\ activeTab = "sessions"
  /\ IF column.sortable THEN handleSort(column.key)
     ELSE UNCHANGED <<sortColumn, sortDirection, currentPage>>
  /\ Rerender(activeTab)
  /\ UNCHANGED themeVars
  /\ UNCHANGED <<activeTab, selectedSessionId, filterStatus, waterfallVars>>

\* a click on the enabled previous or next button, rendered when there are
\* rows and more than one page: handlePageChange(page)
handlePageChange(page) ==
  /\ pc = "ready" /\ activeTab = "sessions"
  /\ Len(sortedData) > 0 /\ totalPages > 1
  /\ \/ page = currentPage - 1 /\ ~(currentPage <= 1)
     \/ page = currentPage + 1 /\ ~(currentPage >= totalPages)
  /\ currentPage' = page
  /\ Rerender(activeTab)
  /\ UNCHANGED themeVars
  /\ UNCHANGED <<activeTab, selectedSessionId, filterStatus,
                 sortColumn, sortDirection, waterfallVars>>

\* handleNavigateToWaterfall(sessionId)
handleNavigateToWaterfall(sessionId) ==
  /\ selectedSessionId' = sessionId
  /\ activeTab' = "waterfall"
  /\ Render("waterfall", sessionId)

\* a click on a row of the page shown: onRowClick(row)
onRowClick(row) ==
  /\ pc = "ready" /\ activeTab = "sessions"
  /\ handleNavigateToWaterfall(row.sessionId)
  /\ Rerender("waterfall")
  /\ UNCHANGED themeVars

\* a click on one of rows
ClickRow(rows) == \E rowIndex \in 1..Len(rows) : onRowClick(rows[rowIndex])

\* a click on a button of the left panel: setSelectedTraceId(trace.traceId)
\* and setSelectedSpan(null), then the effect
SelectTrace(trace) ==
  /\ pc = "ready" /\ activeTab = "waterfall"
  /\ selectedTraceId' = trace.traceId
  /\ selectedSpan' = null
  /\ expandedSpans' = expandEffect(trace, expandedSpans)
  /\ Rerender(activeTab)
  /\ UNCHANGED themeVars
  /\ UNCHANGED <<activeTab, selectedSessionId, filterStatus, sortColumn,
                 sortDirection, currentPage>>

\* the nodes the user clicks on: the roots of the shown tree and, when a
\* root is expanded, the first WaterfallClicks of its children
clickable ==
  LET roots == spanTree(selectedTrace)
      below == {n \in 1..Len(result.spans) :
                  /\ result.spans[n].parentSpanId \in roots
                  /\ result.spans[n].parentSpanId \in expandedSpans}
  IN  roots \cup {result.spans[n].spanId :
                    n \in {k \in below :
                             Cardinality({q \in below : q < k}) < WaterfallClicks}}

\* a click on the expand button of a node: toggleExpand(spanId), then the
\* effect
toggleExpand(spanId) ==
  /\ pc = "ready" /\ activeTab = "waterfall"
  /\ expandedSpans' =
       expandEffect(selectedTrace,
                    IF spanId \in expandedSpans THEN expandedSpans \ {spanId}
                    ELSE expandedSpans \cup {spanId})
  /\ Rerender(activeTab)
  /\ UNCHANGED themeVars
  /\ UNCHANGED <<activeTab, selectedSessionId, filterStatus, sortColumn,
                 sortDirection, currentPage, selectedTraceId, selectedSpan>>

\* a click on the row of a node: onSelectSpan(span)
onSelectSpan(spanId) ==
  /\ pc = "ready" /\ activeTab = "waterfall"
  /\ selectedSpan' = spanId
  /\ Rerender(activeTab)
  /\ UNCHANGED themeVars
  /\ UNCHANGED <<activeTab, selectedSessionId, filterStatus, sortColumn,
                 sortDirection, currentPage, selectedTraceId, expandedSpans>>

\* what the user can do on the Waterfall tab, and the tab bar
NextWaterfall ==
  \/ \E k \in 1..Len(tabs) : SetActiveTab(tabs[k])
  \/ \E k \in 1..Len(traces) : SelectTrace(traces[k])
  \/ \E spanId \in clickable : toggleExpand(spanId)
  \/ \E spanId \in clickable : onSelectSpan(spanId)

InitWaterfall == Loaded({WaterfallSessions}, {DashboardSeed})

SpecWaterfall == InitWaterfall /\ [][NextWaterfall]_vars

\* what the user can do once the data is loaded and the tabs are rendered
NextDashboard ==
  \/ \E k \in 1..Len(tabs) : SetActiveTab(tabs[k])
  \/ \E status \in {"all", "success", "failed"} : SetFilterStatus(status)
  \/ \E k \in 1..Len(sessionColumns) : ClickHeader(sessionColumns[k])
  \/ \E page \in 0..(totalPages + 1) : handlePageChange(page)
  \/ ClickRow(paginatedData)

SpecDashboard == InitDashboard /\ [][NextDashboard]_vars

(* ------------------------------ the theme ------------------------------ *)
\* type Theme
Theme == {"light", "dark", "auto"}

\* what localStorage holds when the dashboard is opened: nothing, or the
\* item applyTheme has left there
storedThemes ==
  {{}} \cup {setItem({}, "dashboard-theme", newTheme) : newTheme \in Theme}

\* ModernDashboard is rendered for the first time, in a browser whose
\* localStorage is one of storedThemes
InitTheme ==
  /\ pc = "mount"
  /\ numSessions = WaterfallSessions
  /\ i = 0
  /\ sessions = <<>>
  /\ sessionComplexity = 0
  /\ successRate = 0
  /\ allSpans = <<>>
  /\ spans = <<>>
  /\ sessionSpanId = null
  /\ taskI = 0
  /\ currentTime = Time(0, Num(0, 1))
  /\ rng = DashboardSeed
  /\ nextId = 1
  /\ clock = BaseClock
  /\ result = <<>>
  /\ call = <<>>
  /\ drawn = null
  /\ Mount
  /\ localStorage \in storedThemes
  /\ documentElement = {}

\* localStorage.getItem('dashboard-theme') as Theme || 'auto'
savedTheme ==
  IF /\ hasItem(localStorage, "dashboard-theme")
     /\ getItem(localStorage, "dashboard-theme") # ""
    THEN getItem(localStorage, "dashboard-theme")
    ELSE "auto"

\* the effects of ModernDashboard, run once after the first render: the
\* saved theme is set and applied, the data is generated and set
MountEffects ==
  /\ pc = "mount"
  /\ theme' = savedTheme
  /\ applyTheme(savedTheme)
  /\ LET loop == generateSampleTraceData(numSessions, rng, BaseClock)
     IN  /\ result' = DashboardData(loop.sessions, loop.allSpans)
         /\ rng' = loop.rng
         /\ nextId' = loop.nextId
  /\ i' = numSessions
  /\ pc' = "ready"
  /\ UNCHANGED <<numSessions, sessions, sessionComplexity, successRate,
                 allSpans, spans, sessionSpanId, taskI, currentTime, clock,
                 call, drawn, uiVars>>

\* the theme toggleTheme goes to from theme t
newTheme(t) ==
  IF t = "light" THEN "dark"
  ELSE IF t = "dark" THEN "auto"
  ELSE "light"

\* a click on the theme button: toggleTheme()
toggleTheme ==
  /\ pc = "ready"
  /\ theme' = newTheme(theme)
  /\ applyTheme(newTheme(theme))
  /\ result' = rendered(result, activeTab)
  /\ UNCHANGED <<genLocals, uiVars>>

\* the dashboard from its first render on: the loading screen until the
\* effects have run, then the theme button, the tab bar, and on the
\* Waterfall tab the traces, the rows of the spans and the expand buttons
\* of the root spans
NextTheme ==
  \/ MountEffects
  \/ toggleTheme
  \/ pc = "ready" /\ \E k \in 1..Len(tabs) : SetActiveTab(tabs[k])
  \/ pc = "ready" /\ \E k \in 1..Len(traces) : SelectTrace(traces[k])
  \/ pc = "ready" /\ \E spanId \in clickable : onSelectSpan(spanId)
  \/ pc = "ready" /\ \E spanId \in spanTree(selectedTrace) : toggleExpand(spanId)

SpecTheme == InitTheme /\ [][NextTheme]_vars

(* ------------------------------- claims -------------------------------- *)
Returned == pc = "done"
Sessions == result.sessions
Spans == result.spans
SpanIx == 1..Len(Spans)
SessionIx == 1..Len(Sessions)
Kind(span) == span.operationName[1]
HasError(span) == "error.type" \in DOMAIN span.attributes

\* C1: in a dataset returned for n >= 1 every trace has exactly one span
\* with parentSpanId null, every other span's parent is another span of the
\* same trace, and every span carries the traceId of the session it was
\* generated for (while a session's spans are built, and in the result).
C1_TreeValidity ==
  /\ pc = "tasks" =>
       \A n \in 1..Len(spans) : spans[n].traceId = sessions[Len(sessions)].traceId
  /\ (Returned /\ numSessions >= 1) =>
       /\ \A n \in SpanIx : \E m \in SessionIx : Spans[n].traceId = Sessions[m].traceId
       /\ \A m \in SessionIx :
            Cardinality({n \in SpanIx : /\ Spans[n].traceId = Sessions[m].traceId
                                        /\ Spans[n].parentSpanId = null}) = 1
       /\ \A n \in SpanIx :
            Spans[n].parentSpanId # null =>
              \E m \in SpanIx : /\ m # n
                                /\ Spans[m].spanId = Spans[n].parentSpanId
                                /\ Spans[m].traceId = Spans[n].traceId

\* a returned dataset of two traces with a span two levels below its root
C1_Witness ==
  /\ Returned
  /\ Len(Sessions) = 2
  /\ \E n \in SpanIx : \E m \in SpanIx :
       /\ Spans[n].parentSpanId = Spans[m].spanId
       /\ Spans[m].parentSpanId # null
       /\ Spans[n].traceId = Sessions[2].traceId

\* C2: in a returned dataset a span has attributes['error.type'] if and
\* only if its success is false, root session spans included.
C2_ErrorIffFailed ==
  Returned => \A n \in SpanIx : HasError(Spans[n]) <=> ~Spans[n].success

\* C3: in a returned dataset an LLM or tool span that succeeded has a
\* parent task span that succeeded.
C3_ChildSuccessImpliesTask ==
  Returned =>
    \A n \in SpanIx :
      (Kind(Spans[n]) \in {"llm", "tool"} /\ Spans[n].success) =>
        \A m \in SpanIx :
          Spans[m].spanId = Spans[n].parentSpanId =>
            (Kind(Spans[m]) = "agent-task" /\ Spans[m].success)

\* a returned dataset with a failed task that has an LLM child and a tool
\* child, and a succeeded task with a succeeded LLM child and a failed one
C3_Witness ==
  /\ Returned
  /\ \E m \in SpanIx :
       /\ Kind(Spans[m]) = "agent-task" /\ ~Spans[m].success
       /\ \E n \in SpanIx : Kind(Spans[n]) = "llm" /\ Spans[n].parentSpanId = Spans[m].spanId
       /\ \E n \in SpanIx : Kind(Spans[n]) = "tool" /\ Spans[n].parentSpanId = Spans[m].spanId
  /\ \E m \in SpanIx :
       /\ Kind(Spans[m]) = "agent-task" /\ Spans[m].success
       /\ \E n \in SpanIx : /\ Kind(Spans[n]) = "llm" /\ Spans[n].success
                            /\ Spans[n].parentSpanId = Spans[m].spanId
       /\ \E n \in SpanIx : /\ Kind(Spans[n]) = "llm" /\ ~Spans[n].success
                            /\ Spans[n].parentSpanId = Spans[m].spanId

\* C4: generateSampleTraceData(0) returns no sessions, no spans and a
\* summary with totalSessions 0, totalSpans 0 and successRate 0.
C4_ZeroSessions ==
  (Returned /\ numSessions = 0) =>
    /\ Sessions = <<>>
    /\ Spans = <<>>
    /\ result.summary.totalSessions = 0
    /\ result.summary.totalSpans = 0
    /\ result.summary.successRate.kind = "finite"
    /\ result.summary.successRate.value.num = 0

\* C5: for a count <= 0 the generator goes straight to its return, and the
\* returned data has empty sessions and spans and zero totals.
C5_NonPositiveCount ==
  numSessions <= 0 =>
    /\ pc \in {"loop", "done"}
    /\ pc = "loop" => ENABLED Return
    /\ sessions = <<>> /\ allSpans = <<>>
    /\ Returned =>
         /\ Sessions = <<>>
         /\ Spans = <<>>
         /\ result.summary.totalSessions = 0
         /\ result.summary.totalSpans = 0

\* the generator has returned for a negative count
C5_Witness == Returned /\ numSessions < 0

\* C6: for n >= 1 the summary has totalSessions = sessions.length,
\* totalSpans = spans.length, timeRange.start the least startTime,
\* timeRange.end the greatest endTime, successRate the fraction of
\* succeeded sessions, and agentTypes the six catalog names.
C6_SummaryConsistency ==
  (Returned /\ numSessions >= 1) =>
    LET summary == result.summary
        succeeded == Cardinality({n \in SessionIx : Sessions[n].success})
    IN  /\ Len(Sessions) = numSessions
        /\ summary.totalSessions = Len(Sessions)
        /\ summary.totalSpans = Len(Spans)
        /\ summary.timeRange.start.kind = "finite"
        /\ summary.timeRange.start.value.den = 1
        /\ \A n \in SessionIx : summary.timeRange.start.value.num <= Sessions[n].startTime
        /\ \E n \in SessionIx : summary.timeRange.start.value.num = Sessions[n].startTime
        /\ summary.timeRange.end.kind = "finite"
        /\ summary.timeRange.end.value.den = 1
        /\ \A n \in SessionIx : summary.timeRange.end.value.num >= Sessions[n].endTime
        /\ \E n \in SessionIx : summary.timeRange.end.value.num = Sessions[n].endTime
        /\ summary.successRate.kind = "finite"
        /\ summary.successRate.value.num * Len(Sessions)
             = succeeded * summary.successRate.value.den
        /\ summary.agentTypes =
             <<"research-agent", "code-agent", "planning-agent",
               "communication-agent", "data-agent", "monitoring-agent">>

\* two sessions, the second starting before the first and only one of them
\* succeeded, with spans of fewer than six agent types
C6_Witness ==
  /\ Returned
  /\ Len(Sessions) = 2
  /\ Sessions[2].startTime < Sessions[1].startTime
  /\ Sessions[1].success # Sessions[2].success
  /\ Cardinality({Spans[n].agentType :
                    n \in {m \in SpanIx : Kind(Spans[m]) = "agent-task"}}) < 6

\* C7: the trace of every session has exactly one root span, named
\* 'session', and exactly numTasks spans whose parent is the root; these are
\* the task spans of the trace, named 'agent-task:<agentType>'.
C7_RootAndTasks ==
  Returned =>
    \A m \in SessionIx :
      LET trace == {n \in SpanIx : Spans[n].traceId = Sessions[m].traceId}
          roots == {n \in trace : Spans[n].parentSpanId = null}
      IN  /\ Cardinality(roots) = 1
          /\ \A r \in roots :
               LET children == {n \in trace : Spans[n].parentSpanId = Spans[r].spanId}
               IN  /\ Spans[r].operationName = <<"session">>
                   /\ Cardinality(children) = Sessions[m].numTasks
                   /\ children = {n \in trace : Kind(Spans[n]) = "agent-task"}
                   /\ \A n \in children :
                        Spans[n].operationName = <<"agent-task", Spans[n].agentType>>

\* a returned trace whose tasks have LLM and tool spans below them
C7_Witness ==
  /\ Returned
  /\ \E m \in SessionIx :
       /\ Sessions[m].numTasks >= 8
       /\ Cardinality({n \in SpanIx : Spans[n].traceId = Sessions[m].traceId})
            > 2 * Sessions[m].numTasks

\* C8: every generated session has duration > 0, numTasks >= 2,
\* endTime = startTime + duration and traceId = sessionId, and its root
\* span has the session's startTime, endTime, duration and success.
C8_SessionInvariant ==
  /\ \A m \in 1..Len(sessions) :
       /\ sessions[m].duration > 0
       /\ sessions[m].numTasks >= 2
       /\ sessions[m].endTime = sessions[m].startTime + sessions[m].duration
       /\ sessions[m].traceId = sessions[m].sessionId
  /\ \A n \in 1..Len(allSpans \o spans) :
       LET span == (allSpans \o spans)[n]
       IN  span.parentSpanId = null =>
             \E m \in 1..Len(sessions) :
               /\ sessions[m].traceId = span.traceId
               /\ span.startTime = sessions[m].startTime
               /\ span.endTime = sessions[m].endTime
               /\ span.duration = Num(sessions[m].duration, 1)
               /\ span.success = sessions[m].success

\* two sessions generated at different values of Date.now(), one failed
C8_Witness ==
  /\ Returned
  /\ Len(Sessions) = 2
  /\ clock > BaseClock
  /\ ~Sessions[2].success
  /\ \E n \in SpanIx : Spans[n].parentSpanId = null /\ ~Spans[n].success

\* the three tiers of getSessionParams
Complex(duration, tasks) == duration \in 600000..1800000 /\ tasks \in 15..40
Medium(duration, tasks) == duration \in 120000..600000 /\ tasks \in 8..20
Simple(duration, tasks) == duration \in 30000..120000 /\ tasks \in 2..8

\* C9: a score > 0.7 gives the complex tier with successRate 0.75, a score
\* in (0.3, 0.7] the medium tier with 0.85, a score <= 0.3 the simple tier
\* with 0.95; every generated session's (duration, numTasks) lies in one of
\* the three boxes.
C9_Tiers ==
  /\ Len(sessions) >= 1 =>
       LET s == sessions[Len(sessions)]
           c == sessionComplexity
       IN  /\ 10 * c > 7 * RandMod =>
                Complex(s.duration, s.numTasks) /\ successRate = 75
           /\ (10 * c > 3 * RandMod /\ 10 * c <= 7 * RandMod) =>
                Medium(s.duration, s.numTasks) /\ successRate = 85
           /\ 10 * c <= 3 * RandMod =>
                Simple(s.duration, s.numTasks) /\ successRate = 95
  /\ \A m \in 1..Len(sessions) :
       \/ Complex(sessions[m].duration, sessions[m].numTasks)
       \/ Medium(sessions[m].duration, sessions[m].numTasks)
       \/ Simple(sessions[m].duration, sessions[m].numTasks)

\* a session generated on the score 0.7 exactly, of more than 8 tasks
C9_Witness ==
  /\ Len(sessions) = 1
  /\ 10 * sessionComplexity = 7 * RandMod
  /\ sessions[1].numTasks > 8
  /\ sessions[1].duration > 120000

\* C10: every session and every span has duration > 0 and
\* endTime - startTime within less than 1 ms of duration.
C10_DurationPositive ==
  /\ \A m \in 1..Len(sessions) :
       /\ sessions[m].duration > 0
       /\ sessions[m].endTime - sessions[m].startTime = sessions[m].duration
  /\ Returned =>
       \A n \in SpanIx :
         LET d == Spans[n].duration
             elapsed == (Spans[n].endTime - Spans[n].startTime) * d.den
         IN  /\ d.num > 0
             /\ elapsed - d.num < d.den
             /\ d.num - elapsed < d.den

\* a returned dataset with a task span of a fractional duration whose
\* endTime - startTime is rounded up, one rounded down, an LLM span and a
\* tool span
C10_Witness ==
  /\ Returned
  /\ \E n \in SpanIx :
       /\ Kind(Spans[n]) = "agent-task"
       /\ (Spans[n].endTime - Spans[n].startTime) * Spans[n].duration.den
            > Spans[n].duration.num
  /\ \E n \in SpanIx :
       /\ Kind(Spans[n]) = "agent-task"
       /\ (Spans[n].endTime - Spans[n].startTime) * Spans[n].duration.den
            < Spans[n].duration.num
  /\ \E n \in SpanIx : Kind(Spans[n]) = "llm"
  /\ \E n \in SpanIx : Kind(Spans[n]) = "tool"

\* the catalog entry named by an LLM span's model
ModelOf(span) == CHOOSE m \in {llmModels[k] : k \in DOMAIN llmModels} : m.name = span.model

InHalfRange(tokens, avg) == 10 * tokens >= 5 * avg /\ 10 * tokens <= 15 * avg

\* C11 as stated: every LLM span, succeeded or failed, has inputTokens and
\* outputTokens within 50% of the averages of the catalog model it names.
C11_TokensWithinHalf ==
  Returned =>
    \A n \in SpanIx :
      Kind(Spans[n]) = "llm" =>
        /\ InHalfRange(Spans[n].inputTokens, ModelOf(Spans[n]).avgInputTokens)
        /\ InHalfRange(Spans[n].outputTokens, ModelOf(Spans[n]).avgOutputTokens)

\* C11, amended: every LLM span's model is a catalog model and its
\* inputTokens is within 50% of that model's average; its outputTokens is
\* within 50% of the average when the call succeeded and 0 when it failed;
\* the attributes carry the same two counts.
C11_TokensOfOutcome ==
  Returned =>
    \A n \in SpanIx :
      Kind(Spans[n]) = "llm" =>
        /\ \E k \in DOMAIN llmModels : llmModels[k].name = Spans[n].model
        /\ InHalfRange(Spans[n].inputTokens, ModelOf(Spans[n]).avgInputTokens)
        /\ Spans[n].success =>
             InHalfRange(Spans[n].outputTokens, ModelOf(Spans[n]).avgOutputTokens)
        /\ ~Spans[n].success => Spans[n].outputTokens = 0
        /\ Spans[n].attributes["ai.token.count.input"] = Spans[n].inputTokens
        /\ Spans[n].attributes["ai.token.count.output"] = Spans[n].outputTokens

\* a returned dataset with a succeeded and a failed LLM span
C11_Witness ==
  /\ Returned
  /\ \E n \in SpanIx : Kind(Spans[n]) = "llm" /\ Spans[n].success
  /\ \E n \in SpanIx : Kind(Spans[n]) = "llm" /\ ~Spans[n].success

\* the generator states before taskSuccess on which the task at taskIndex
\* of session fails
FailingDraws(session, taskIndex) ==
  {g \in 0..(RandMod - 1) : ~taskSuccess(session, taskIndex, g).success}

\* C12: in a session with success false the last task fails on more of the
\* generator's states than the task at index 0 does, and the task at index
\* 0 does not fail on all of them.
C12_LaterTasksFailMore ==
  \A m \in 1..Len(sessions) :
    ~sessions[m].success =>
      /\ Cardinality(FailingDraws(sessions[m], sessions[m].numTasks - 1))
           > Cardinality(FailingDraws(sessions[m], 0))
      /\ FailingDraws(sessions[m], 0) # 0..(RandMod - 1)

\* the indices of the spans of kind whose parent is the span at index m
ChildrenOf(m, kind) ==
  {n \in SpanIx : Spans[n].parentSpanId = Spans[m].spanId /\ Kind(Spans[n]) = kind}

\* the children counts of C13 with at most most children of each kind
ChildCounts(most) ==
  Returned =>
    /\ \A m \in SpanIx :
         Kind(Spans[m]) = "agent-task" =>
           /\ Cardinality(ChildrenOf(m, "llm")) \in 0..most
           /\ Cardinality(ChildrenOf(m, "tool")) \in 0..most
    /\ \A n \in SpanIx : \A m \in SpanIx :
         Spans[n].parentSpanId = Spans[m].spanId => Kind(Spans[m]) \notin {"llm", "tool"}

\* C13 as stated: each task span has 0 to 2 LLM child spans and 0 to 2 tool
\* child spans, and no span has an LLM or tool span as its parent.
C13_AtMostTwoChildren == ChildCounts(2)

\* C13, amended: each task span has 0 to 3 LLM child spans and 0 to 3 tool
\* child spans, and no span has an LLM or tool span as its parent.
C13_AtMostThreeChildren == ChildCounts(3)

\* a returned dataset with a task of three LLM children, a task of three
\* tool children and a task of no children
C13_Witness ==
  /\ Returned
  /\ \E m \in SpanIx : Kind(Spans[m]) = "agent-task" /\ Cardinality(ChildrenOf(m, "llm")) = 3
  /\ \E m \in SpanIx : Kind(Spans[m]) = "agent-task" /\ Cardinality(ChildrenOf(m, "tool")) = 3
  /\ \E m \in SpanIx : /\ Kind(Spans[m]) = "agent-task"
                       /\ ChildrenOf(m, "llm") = {} /\ ChildrenOf(m, "tool") = {}

\* C14: in a returned dataset the parent of every non-root span stands
\* earlier in the flat list of spans than the span itself, and the span's
\* startTime is at least its parent's.
C14_ParentFirst ==
  Returned =>
    \A n \in SpanIx :
      Spans[n].parentSpanId # null =>
        \E m \in 1..(n - 1) :
          /\ Spans[m].spanId = Spans[n].parentSpanId
          /\ Spans[n].startTime >= Spans[m].startTime

\* a returned dataset with an LLM span starting with its task, a tool span
\* starting after its task, and a second task of a trace
C14_Witness ==
  /\ Returned
  /\ \E n \in SpanIx : \E m \in SpanIx :
       /\ Kind(Spans[n]) = "llm" /\ Spans[n].parentSpanId = Spans[m].spanId
       /\ Spans[n].startTime - Spans[m].startTime < 1000
  /\ \E n \in SpanIx : \E m \in SpanIx :
       /\ Kind(Spans[n]) = "tool" /\ Spans[n].parentSpanId = Spans[m].spanId
       /\ Spans[n].startTime > Spans[m].startTime
  /\ \E n \in SpanIx : \E m \in SpanIx :
       /\ Kind(Spans[n]) = "agent-task" /\ Spans[n].parentSpanId = Spans[m].spanId
       /\ Spans[n].startTime > Spans[m].startTime

\* C15: a click on any row of the sessions table, on any page and under any
\* sort order and filter, makes 'waterfall' the active tab, and the
\* Waterfall tab then has the clicked session as its selected trace and
\* spans of it to show.
C15_RowClickShowsTrace ==
  [][(activeTab = "sessions" /\ selectedSessionId' # selectedSessionId) =>
       /\ \E k \in 1..Len(result.sessions) : result.sessions[k].sessionId = selectedSessionId'
       /\ activeTab' = "waterfall"
       /\ selectedTrace' # undefined
       /\ selectedTrace'.sessionId = selectedSessionId'
       /\ \E n \in 1..Len(result.spans) :
            result.spans[n].traceId = selectedTrace'.traceId]_vars

\* the index in the returned sessions of the session a span belongs to
SessionOf(span) == CHOOSE m \in SessionIx : Sessions[m].traceId = span.traceId

\* the returned spans are one block per session, in session order, each
\* block starting with the root span of its session
Blocks ==
  /\ \A m \in SessionIx : \E n \in SpanIx : Spans[n].traceId = Sessions[m].traceId
  /\ \A n \in SpanIx : \E m \in SessionIx : Spans[n].traceId = Sessions[m].traceId
  /\ \A a \in SpanIx : \A b \in SpanIx :
       a < b => SessionOf(Spans[a]) <= SessionOf(Spans[b])
  /\ \A n \in SpanIx :
       (n = 1 \/ Spans[n - 1].traceId # Spans[n].traceId) <=>
         (Spans[n].parentSpanId = null /\ Spans[n].operationName = <<"session">>)

\* what is left to do: the sessions to go, whether the next step is at the
\* session loop's test, and the tasks to go in the running session
Rank ==
  <<IF numSessions > i THEN numSessions - i ELSE 0,
    IF pc = "loop" THEN 1 ELSE 0,
    IF pc = "tasks" THEN sessions[Len(sessions)].numTasks - taskI + 1 ELSE 0>>

\* the lexicographic order on triples of natural numbers, which is
\* well-founded
LexLess(a, b) ==
  \/ a[1] < b[1]
  \/ a[1] = b[1] /\ a[2] < b[2]
  \/ a[1] = b[1] /\ a[2] = b[2] /\ a[3] < b[3]

\* C16: for n >= 0 every loop is bounded (the session index by n, the task
\* index by numTasks, the LLM and the tool spans of a task by 3 each), every
\* step brings the call nearer to its return and a step is possible until
\* it has returned, so the call terminates; it returns exactly n sessions
\* whose spans form contiguous blocks in session order, each starting with
\* the session's root span.
C16_TerminatesWithBlocks ==
  /\ [](numSessions >= 0 =>
          /\ i \in 0..numSessions
          /\ pc \in {"loop", "tasks", "done"}
          /\ pc = "loop" => ENABLED (GenerateSession \/ Return)
          /\ pc = "tasks" =>
               /\ Len(sessions) = i + 1
               /\ taskI \in 0..sessions[Len(sessions)].numTasks
               /\ TaskLoopTest(taskI, sessions[Len(sessions)]) \/ ENABLED FinishSession
          /\ Returned => (Len(Sessions) = numSessions /\ Blocks /\ ChildCounts(3)))
  /\ [][numSessions >= 0 => LexLess(Rank', Rank)]_vars

\* the call has returned two sessions, each with spans below its tasks
C16_Witness ==
  /\ Returned
  /\ Len(Sessions) = 2
  /\ \A m \in SessionIx :
       Cardinality({n \in SpanIx : Spans[n].traceId = Sessions[m].traceId})
         > 1 + Sessions[m].numTasks

\* the values of the complexity draw, all equally likely, on which
\* getSessionParams gives the complex, the medium and the simple tier
ComplexDraws == {c \in 0..(RandMod - 1) : getSessionParams(c, c).successRate = 75}
MediumDraws == {c \in 0..(RandMod - 1) : getSessionParams(c, c).successRate = 85}
SimpleDraws == {c \in 0..(RandMod - 1) : getSessionParams(c, c).successRate = 95}

\* the share of draws among all is within 3 percentage points of percent
WithinPoints(draws, percent) ==
  /\ 100 * Cardinality(draws) >= (percent - 3) * RandMod
  /\ 100 * Cardinality(draws) <= (percent + 3) * RandMod

\* C17: the complexity draw of a session is uniform, and the shares of its
\* values that give the complex, the medium and the simple tier are within
\* a few percentage points of 30%, 40% and 30%, which are therefore the
\* proportions that many generated sessions tend to; every generated
\* session is of the tier its draw gives.
C17_TierProportions ==
  /\ WithinPoints(ComplexDraws, 30)
  /\ WithinPoints(MediumDraws, 40)
  /\ WithinPoints(SimpleDraws, 30)
  /\ ComplexDraws \cup MediumDraws \cup SimpleDraws = 0..(RandMod - 1)
  /\ Len(sessions) >= 1 =>
       LET s == sessions[Len(sessions)]
       IN  /\ sessionComplexity \in ComplexDraws <=> successRate = 75
           /\ sessionComplexity \in MediumDraws <=> successRate = 85
           /\ sessionComplexity \in SimpleDraws <=> successRate = 95
           /\ successRate = 75 => Complex(s.duration, s.numTasks)
           /\ successRate = 85 => Medium(s.duration, s.numTasks)
           /\ successRate = 95 => Simple(s.duration, s.numTasks)

\* a session of the complex tier has been generated
C17_Witness ==
  /\ Len(sessions) = 1
  /\ successRate = 75
  /\ sessions[1].numTasks > 20

\* the session whose tasks are being generated, and the generator state
\* before taskSuccess of its next task: generateTaskSpan draws the agent
\* type and the duration first
Running == sessions[Len(sessions)]
BeforeOutcome == Advance(Advance(rng))
Late == 10 * taskI > 6 * Running.numTasks

\* the cascade draw exceeds 0.7; the 90% draw, drawn after it when it is
\* drawn, exceeds 0.1
CascadeDraw == DrawAbove(Advance(BeforeOutcome), 70)
NinetyDraw ==
  DrawAbove(Advance(IF Running.success /\ Late THEN Advance(BeforeOutcome)
                    ELSE BeforeOutcome), 10)

TasksAt(m, k) ==
  {n \in SpanIx : /\ Spans[n].traceId = Sessions[m].traceId
                  /\ Kind(Spans[n]) = "agent-task"
                  /\ Spans[n].attributes["ai.task.id"] = <<"task", k>>}

\* the only element of a set of one element
The(set) == CHOOSE n \in set : TRUE

\* the time from the end of the task task-(k-1) of session m, its start
\* plus its duration, to the start of task-k, in units of 1 / den ms where
\* den is the denominator of the duration
GapTimesDen(m, k) ==
  LET prev == Spans[The(TasksAt(m, k - 1))]
      next == Spans[The(TasksAt(m, k))]
  IN  (next.startTime - prev.startTime) * prev.duration.den - prev.duration.num

\* the tasks of every returned session are sequential: one task span per
\* 'ai.task.id', the first starting with the session, each later one after
\* the one before it in the list and in time, without overlap
Sequential ==
  Returned =>
    \A m \in SessionIx :
      /\ \A k \in 1..Sessions[m].numTasks : Cardinality(TasksAt(m, k)) = 1
      /\ Spans[The(TasksAt(m, 1))].startTime = Sessions[m].startTime
      /\ \A k \in 2..Sessions[m].numTasks :
           LET prev == Spans[The(TasksAt(m, k - 1))]
               next == Spans[The(TasksAt(m, k))]
           IN  /\ The(TasksAt(m, k - 1)) < The(TasksAt(m, k))
               /\ prev.endTime <= next.startTime
               /\ prev.startTime < next.startTime

\* C19 as stated: task 0 starts at session.startTime, task i starts at the
\* start of task i-1 plus its duration plus a gap in [100, 1000] ms, task
\* spans of a trace do not overlap and start in the order of their
\* 'ai.task.id'.
C19_GapExact ==
  /\ Sequential
  /\ Returned =>
       \A m \in SessionIx : \A k \in 2..Sessions[m].numTasks :
         LET den == Spans[The(TasksAt(m, k - 1))].duration.den
         IN  GapTimesDen(m, k) >= 100 * den /\ GapTimesDen(m, k) <= 1000 * den

\* C19, amended: as stated, except that task i starts within less than 1 ms
\* of the start of task i-1 plus its duration plus a gap in [100, 1000] ms:
\* the distance is more than 99 ms and less than 1001 ms.
C19_GapWithinOneMs ==
  /\ Sequential
  /\ Returned =>
       \A m \in SessionIx : \A k \in 2..Sessions[m].numTasks :
         LET den == Spans[The(TasksAt(m, k - 1))].duration.den
         IN  GapTimesDen(m, k) > 99 * den /\ GapTimesDen(m, k) < 1001 * den

\* a returned session of more than two tasks with a distance of less than
\* 100 ms from the end of a task to the start of the next
C19_Witness ==
  /\ Returned
  /\ Len(Sessions) = 1
  /\ Sessions[1].numTasks > 2
  /\ \E k \in 2..Sessions[1].numTasks :
       GapTimesDen(1, k) < 100 * Spans[The(TasksAt(1, k - 1))].duration.den

\* the vocabulary of error types of each kind of span
Vocabulary(kind) ==
  IF kind = "agent-task"
    THEN {"timeout", "resource_limit", "validation_error", "dependency_failure"}
  ELSE IF kind = "llm"
    THEN {"rate_limit", "context_length", "safety_filter", "timeout"}
  ELSE IF kind = "tool"
    THEN {"api_error", "timeout", "invalid_input", "rate_limit"}
  ELSE {}

\* C20: every returned span that carries an error has failed, its
\* error.type is of the vocabulary of its own kind, and its error.message
\* is the message of the lookup table for that type, never the fallback
\* 'Unknown error occurred'.
C20_ErrorVocabulary ==
  Returned =>
    \A n \in SpanIx :
      HasError(Spans[n]) =>
        /\ ~Spans[n].success
        /\ Spans[n].attributes["error.type"] \in Vocabulary(Kind(Spans[n]))
        /\ "error.message" \in DOMAIN Spans[n].attributes
        /\ Spans[n].attributes["error.type"] \in DOMAIN errorMessages
        /\ Spans[n].attributes["error.message"]
             = errorMessages[Spans[n].attributes["error.type"]]
        /\ Spans[n].attributes["error.message"] # "Unknown error occurred"

\* a returned dataset with a failed task span, a failed LLM span and a
\* failed tool span, each carrying an error, of three or more error types
C20_Witness ==
  /\ Returned
  /\ \A kind \in {"agent-task", "llm", "tool"} :
       \E n \in SpanIx : Kind(Spans[n]) = kind /\ HasError(Spans[n])
  /\ Cardinality({Spans[n].attributes["error.type"] :
                    n \in {k \in SpanIx : HasError(Spans[k])}}) >= 3

\* the children of kind of the task span at index m that follow one another
\* in the list of spans
Consecutive(m, kind) ==
  {pair \in ChildrenOf(m, kind) \X ChildrenOf(m, kind) :
     /\ pair[1] < pair[2]
     /\ \A n \in ChildrenOf(m, kind) : ~(pair[1] < n /\ n < pair[2])}

\* the first child of kind of the task span at index m
FirstChild(m, kind) ==
  CHOOSE n \in ChildrenOf(m, kind) : \A q \in ChildrenOf(m, kind) : n <= q

\* the LLM and tool spans of every task follow one another: each later LLM
\* span starts 100 to 500 ms after the end of the one before it, no tool span
\* starts before the end of the one before it, every LLM span lasts 800 to
\* 3000 ms and every tool span 200 to 2000 ms
Chained ==
  \A m \in SpanIx :
    Kind(Spans[m]) = "agent-task" =>
      /\ \A pair \in Consecutive(m, "llm") :
           Spans[pair[2]].startTime - Spans[pair[1]].endTime \in 100..500
      /\ \A pair \in Consecutive(m, "tool") :
           Spans[pair[2]].startTime >= Spans[pair[1]].endTime
      /\ \A n \in ChildrenOf(m, "llm") :
           /\ Spans[n].duration.den = 1 /\ Spans[n].duration.num \in 800..3000
           /\ Spans[n].endTime - Spans[n].startTime = Spans[n].duration.num
      /\ \A n \in ChildrenOf(m, "tool") :
           /\ Spans[n].duration.den = 1 /\ Spans[n].duration.num \in 200..2000
           /\ Spans[n].endTime - Spans[n].startTime = Spans[n].duration.num

\* the first LLM span of the task span at index m starts at most tenths
\* tenths of the task's duration, and extra ms, after the task
FirstWithin(m, tenths, extra) ==
  ChildrenOf(m, "llm") # {} =>
    LET offset == Spans[FirstChild(m, "llm")].startTime - Spans[m].startTime
    IN  /\ offset >= 0
        /\ 10 * (offset - extra) * Spans[m].duration.den <= tenths * Spans[m].duration.num

\* C21 as stated: within one task the first LLM span starts within the first
\* 20% of the task's duration after the task's start, each later LLM span
\* starts 100 to 500 ms after the end of the one before it, every LLM span
\* lasts 800 to 3000 ms, tool spans of one task do not overlap and every
\* tool span lasts 200 to 2000 ms.
\* randomInt, called at site, has returned a value from min to max
DrawnWithin(site) ==
  (pc = "returned" /\ call.site = site) =>
    /\ drawn.den = call.max.den
    /\ call.min.num <= drawn.num /\ drawn.num <= call.max.num

\* C21 as stated: within one task the first LLM span starts within the first
\* 20% of the task's duration after the task's start, each later LLM span
\* starts 100 to 500 ms after the end of the one before it, every LLM span
\* lasts 800 to 3000 ms, tool spans of one task do not overlap and every
\* tool span lasts 200 to 2000 ms; the offset of the first LLM span,
\* randomInt(0, taskDuration * 0.2), is at most taskDuration * 0.2 whatever
\* Math.random() returns.
C21_ChainedWithinFifth ==
  /\ Returned =>
       /\ Chained
       /\ \A m \in SpanIx : Kind(Spans[m]) = "agent-task" => FirstWithin(m, 2, 0)
  /\ DrawnWithin("llmStartTime")

\* C23: the duration drawn for a task, randomInt(avg * 0.5, avg * 1.5) with
\* avg = session.duration / session.numTasks, lies in [0.5 * avg, 1.5 * avg],
\* also when avg is not an integer.
C23_DurationWithinHalf == DrawnWithin("taskDuration")

\* the span at index m is the parent of the span at index n
ParentOf(m, n) == Spans[n].parentSpanId = Spans[m].spanId

\* the list new is the list old with spans added at its end
Kept(old, new) == Len(new) >= Len(old) /\ SubSeq(new, 1, Len(old)) = old

\* C22: spans are returned as they were drawn, whatever the window of their
\* parent: a task span lasts at least half the session's average task
\* duration, an LLM span ends 800 to 3000 ms and a tool span 200 to 2000 ms
\* after its start, also when that is after the end of the parent; a span
\* once pushed is never changed, and the spans returned are the spans pushed.
C22_NeverClamped ==
  /\ [](Returned =>
          \A n \in SpanIx :
            /\ Kind(Spans[n]) = "agent-task" =>
                 /\ Spans[n].duration.den = 2 * Sessions[SessionOf(Spans[n])].numTasks
                 /\ Spans[n].duration.num >= Sessions[SessionOf(Spans[n])].duration
                 /\ (Spans[n].endTime - Spans[n].startTime + 1) * Spans[n].duration.den
                      > Spans[n].duration.num
            /\ Kind(Spans[n]) = "llm" =>
                 Spans[n].endTime - Spans[n].startTime \in 800..3000
            /\ Kind(Spans[n]) = "tool" =>
                 Spans[n].endTime - Spans[n].startTime \in 200..2000)
  /\ [][/\ Kept(allSpans, allSpans')
        /\ IF spans' = <<>> THEN allSpans' = allSpans \o spans ELSE Kept(spans, spans')
        /\ pc' = "done" => result'.spans = allSpans]_vars

\* a returned dataset with a task span that ends after its session, an LLM
\* span that ends after its task, and an LLM and a tool span that start
\* after the end of their task
C22_Witness ==
  /\ Returned
  /\ \E n \in SpanIx :
       /\ Kind(Spans[n]) = "agent-task"
       /\ Spans[n].endTime > Sessions[SessionOf(Spans[n])].endTime
  /\ \E m \in SpanIx : \E n \in SpanIx :
       /\ ParentOf(m, n) /\ Kind(Spans[n]) = "llm"
       /\ Spans[n].startTime <= Spans[m].endTime
       /\ Spans[n].endTime > Spans[m].endTime
  /\ \E m \in SpanIx : \E n \in SpanIx :
       /\ ParentOf(m, n) /\ Kind(Spans[n]) = "llm"
       /\ Spans[n].startTime > Spans[m].endTime
  /\ \E m \in SpanIx : \E n \in SpanIx :
       /\ ParentOf(m, n) /\ Kind(Spans[n]) = "tool"
       /\ Spans[n].startTime > Spans[m].endTime

\* C24: in a returned dataset every task span's attributes 'ai.agent.id',
\* 'ai.agent.type' and 'task.type' equal its agentId, agentType and
\* taskType, and every LLM span's attributes 'ai.llm.model',
\* 'ai.token.count.input' and 'ai.token.count.output' equal its model,
\* inputTokens and outputTokens.
C24_AttributesAgree ==
  Returned =>
    \A n \in SpanIx :
      /\ Kind(Spans[n]) = "agent-task" =>
           /\ Spans[n].attributes["ai.agent.id"] = Spans[n].agentId
           /\ Spans[n].attributes["ai.agent.type"] = Spans[n].agentType
           /\ Spans[n].attributes["task.type"] = Spans[n].taskType
      /\ Kind(Spans[n]) = "llm" =>
           /\ Spans[n].attributes["ai.llm.model"] = Spans[n].model
           /\ Spans[n].attributes["ai.token.count.input"] = Spans[n].inputTokens
           /\ Spans[n].attributes["ai.token.count.output"] = Spans[n].outputTokens

\* C25: while the sessions table is shown, currentPage is at least 1 and at
\* most max(1, totalPages), a table with rows shows at least one of them,
\* and a page has at most itemsPerPage rows.
C25_PageInRange ==
  (pc = "ready" /\ activeTab = "sessions") =>
    /\ 1 <= currentPage
    /\ currentPage <= (IF totalPages > 1 THEN totalPages ELSE 1)
    /\ Len(sortedData) > 0 => Len(paginatedData) > 0
    /\ Len(paginatedData) <= itemsPerPage

\* C26: while the sessions table stays shown, a step that changes sortColumn
\* or sortDirection either flips sortDirection and leaves sortColumn, which
\* is set, unchanged, or sets sortColumn to another, sortable, column and
\* sortDirection to 'asc'; in both cases currentPage becomes 1 and the
\* filter is unchanged; sortColumn is never a column that is not sortable.
C26_HandleSort ==
  [][(activeTab = "sessions" /\ activeTab' = "sessions") =>
       /\ (sortColumn' # sortColumn \/ sortDirection' # sortDirection) =>
            /\ \/ /\ sortColumn' = sortColumn /\ sortColumn # ""
                  /\ sortDirection' = (IF sortDirection = "asc" THEN "desc" ELSE "asc")
               \/ /\ sortColumn' # sortColumn
                  /\ \E k \in 1..Len(sessionColumns) :
                       sessionColumns[k].sortable /\ sessionColumns[k].key = sortColumn'
                  /\ sortDirection' = "asc"
            /\ currentPage' = 1
            /\ filterStatus' = filterStatus
       /\ \A k \in 1..Len(sessionColumns) :
            ~sessionColumns[k].sortable => sortColumn' # sessionColumns[k].key]_vars

\* the sessions table on page 1, sorted by duration in descending order:
\* the header of the sorted column has been clicked again
C26_Witness ==
  /\ pc = "ready" /\ activeTab = "sessions"
  /\ sortColumn = "duration" /\ sortDirection = "desc" /\ currentPage = 1

C28_ShownTraceExpanded ==
  [][(/\ activeTab' = "waterfall"
      /\ activeTab # "waterfall" \/ selectedTraceId' # selectedTraceId) =>
       /\ selectedSpan' = null
       /\ spanTree(selectedTrace') \subseteq expandedSpans'
       /\ childrenOf(spanTree(selectedTrace')) \subseteq expandedSpans']_vars

\* the value of the attribute data-theme of the document, as a set: empty
\* when the attribute is absent
DataTheme == {attr.value : attr \in {a \in documentElement : a.name = "data-theme"}}

\* C29: toggleTheme goes from light to dark, from dark to auto and from
\* auto to light, so that three toggles lead back to the theme they
\* started from; once the effects have run, the item 'dashboard-theme' of
\* localStorage is the theme, and the attribute data-theme of the document
\* is absent when the theme is 'auto' and is the theme otherwise.
C29_ThemeCycleApplied ==
  /\ [](pc = "ready" =>
          /\ theme \in Theme
          /\ newTheme(theme) = CASE theme = "light" -> "dark"
                                 [] theme = "dark" -> "auto"
                                 [] theme = "auto" -> "light"
          /\ newTheme(newTheme(newTheme(theme))) = theme
          /\ hasItem(localStorage, "dashboard-theme")
          /\ getItem(localStorage, "dashboard-theme") = theme
          /\ DataTheme = IF theme = "auto" THEN {} ELSE {theme})
  /\ [][pc = "ready" /\ localStorage' # localStorage =>
         theme' = newTheme(theme)]_vars

\* the Waterfall tab in the auto theme: the item is 'auto' and the
\* attribute is absent
C29_Witness ==
  /\ pc = "ready" /\ activeTab = "waterfall"
  /\ theme = "auto"
  /\ localStorage = setItem({}, "dashboard-theme", "auto")
  /\ DataTheme = {}

\* the catalog agent types a task span may be of
CatalogOf(m) == {a \in 1..Len(agentTypes) : agentTypes[a].type = Spans[m].agentType}

\* the tools agent type a of the catalog lists
ToolsOf(a) == {agentTypes[a].toolUsage[k] : k \in 1..Len(agentTypes[a].toolUsage)}

\* C30: a tool span carries one tool name, as toolName, as the attribute
\* 'ai.tool.name' and in its operationName 'tool:<name>', and the agent
\* type of its parent task span lists that tool.
C30_ToolOfAgentType ==
  Returned =>
    \A n \in SpanIx :
      Kind(Spans[n]) = "tool" =>
        /\ Spans[n].attributes["ai.tool.name"] = Spans[n].toolName
        /\ Spans[n].operationName = <<"tool", Spans[n].toolName>>
        /\ \E m \in SpanIx :
             /\ ParentOf(m, n)
             /\ Kind(Spans[m]) = "agent-task"
             /\ CatalogOf(m) # {}
             /\ \A a \in CatalogOf(m) : Spans[n].toolName \in ToolsOf(a)

\* tool spans under task spans of two agent types, none of them the first
\* of the catalog
C30_Witness ==
  /\ Returned
  /\ \E n1, n2 \in SpanIx : \E m1, m2 \in SpanIx :
       /\ Kind(Spans[n1]) = "tool" /\ Kind(Spans[n2]) = "tool"
       /\ ParentOf(m1, n1) /\ ParentOf(m2, n2)
       /\ Spans[m1].agentType # Spans[m2].agentType
       /\ Spans[m1].agentType # agentTypes[1].type
       /\ Spans[m2].agentType # agentTypes[1].type

====
